---- MODULE Spec2Model ----
(***************************************************************************)
(* Tool compilation, caching and execution engine of mcp-server            *)
(* (src/core/tool_compiler.py), with the tool store it is fed from         *)
(* (src/core/tool_loader.py) and the registry that drives it               *)
(* (src/core/dynamic_registry.py).                                         *)
(*                                                                         *)
(* A tool's source text is a sequence of lines; a line is a pair           *)
(* <<opcode, argument>>.  The validator's regular expressions are modelled *)
(* on lines, the build derives the entry point from the text, and the      *)
(* execution engine interprets the entry point's body one await at a time, *)
(* as the asyncio event loop runs it.                                      *)
(***************************************************************************)
EXTENDS Integers, Sequences, FiniteSets, TLC

VARIABLES
    compiled_cache,   \* ToolCompiler.compiled_cache: tool_id -> CompiledTool (a dict)
    builds,           \* number of CompiledTool instances constructed so far
    submitted,        \* history: tool_id -> code most recently passed to compile_tool
    db,               \* the tools collection: stored tool documents, in natural order
    registered_tools, \* DynamicToolRegistry.registered_tools: the registered tool ids
    trees,            \* execution trees: one top-level execute_tool call each
    last              \* outcome of the most recent compile_tool / registry call

vars == <<compiled_cache, builds, submitted, db, registered_tools, trees, last>>

(***************************************************************************)
(* Bounds and program constants                                            *)
(***************************************************************************)
MaxRuns == 2          \* top-level calls one caller makes in the model of gathered calls
MaxInvocations == 6   \* execute_tool and call_tool calls in one tree of gathered calls
MaxConnects == 3      \* connect() calls made on the database manager
MaxCalls == 6         \* profiler calls a caller makes on one carried session
MaxLines == 2         \* lines in a source text handed to the validator on its own
MaxCompiles == 3      \* CompiledTool instances constructed in one run of the model
TickStep == 15        \* largest amount of time one Tick lets pass
BusyUnits == 40       \* time a "busy" line of a synchronous entry point takes
TIMEOUT == 30         \* asyncio.wait_for(..., timeout=30)

ToolIds == {"A", "B", "C"}
TenantIds == {"t1", "t2"}
NoTenant == "None"

(***************************************************************************)
(* Generic helpers                                                         *)
(***************************************************************************)
Range(s) == {s[i] : i \in DOMAIN s}

Min(a, b) == IF a <= b THEN a ELSE b

SetMin(S) == CHOOSE x \in S : \A y \in S : x <= y

\* dict assignment d[k] = v
DictPut(d, k, v) == [x \in DOMAIN d \cup {k} |-> IF x = k THEN v ELSE d[x]]

EmptyDict == [x \in {} |-> 0]

(***************************************************************************)
(* Source texts                                                            *)
(***************************************************************************)
codeCallB == << <<"async_def_execute", "">>, <<"call", "B">>, <<"return", "rA">> >>
codeTryBC == << <<"async_def_execute", "">>, <<"try_call", "B">>, <<"try_call", "B">>,
                <<"call", "C">>, <<"return", "rA2">> >>
codeCallA == << <<"async_def_execute", "">>, <<"call", "A">>, <<"return", "rB">> >>
codeCallC == << <<"import", "json">>, <<"async_def_execute", "">>, <<"call", "C">>,
                <<"return", "rB2">> >>
\* await asyncio.gather(context.call_tool(X, {}), context.call_tool(Y, {}),
\*                      return_exceptions=True)
codeGatherBC == << <<"async_def_execute", "">>, <<"gather", "B", "C">>, <<"return", "rG">> >>
codeGatherBB == << <<"async_def_execute", "">>, <<"gather", "B", "B">>, <<"return", "rG2">> >>
codeRaise == << <<"async_def_execute", "">>, <<"raise", "ValueError">> >>
codeHang == << <<"async_def_execute", "">>, <<"hang", "">> >>
codeSyncRet == << <<"def_execute", "">>, <<"return", "rC">> >>
codeSyncBusy == << <<"def_execute", "">>, <<"busy", "">>, <<"return", "rC2">> >>
codeAsyncRet == << <<"async_def_execute", "">>, <<"return", "rC3">> >>
codeSocket == << <<"import", "socket">>, <<"def_execute", "">>, <<"return", "rS">> >>
codeOs == << <<"import", "os">>, <<"def_execute", "">>, <<"return", "rO">> >>
codeNoDef == << <<"def_other", "">>, <<"return", "rN">> >>
codeBadSyntax == << <<"def_execute", "">>, <<"syntax_error", "">> >>
\* the text "def execute(" occurs, but only inside a string literal
codeDocOnly == << <<"text", "def execute(">>, <<"def_other", "">>, <<"return", "rD">> >>

ToolDoc(t, c, ten) ==
    [tool_id |-> t, name |-> t, code |-> c, input_schema |-> "schema",
     tenants |-> ten, active |-> TRUE]

Both == {"t1", "t2"}

\* The contents the tools collection may have when the server starts.
Stores ==
    { <<ToolDoc("A", codeCallB, {"t1"}), ToolDoc("B", codeCallA, Both),
        ToolDoc("C", codeSyncRet, Both)>>,
      <<ToolDoc("A", codeCallB, {"t1"}), ToolDoc("B", codeCallC, Both),
        ToolDoc("C", codeAsyncRet, Both)>>,
      <<ToolDoc("A", codeTryBC, {"t1"}), ToolDoc("B", codeRaise, Both),
        ToolDoc("C", codeSyncBusy, Both)>>,
      <<ToolDoc("A", codeTryBC, {"t1"}), ToolDoc("B", codeHang, {"t2"}),
        ToolDoc("C", codeSyncRet, Both)>>,
      <<ToolDoc("A", codeCallB, {"t1"}), ToolDoc("B", codeCallC, Both),
        ToolDoc("C", codeHang, Both)>> }

SeedStore ==
    <<ToolDoc("A", codeSyncRet, {"t1"}), ToolDoc("C", codeSyncRet, Both)>>

\* The tool documents callers hand to compile_tool directly.
DirectDocs ==
    {ToolDoc("A", codeSyncRet, {"t1"})}
    \cup {ToolDoc("C", c, Both) :
            c \in {codeSyncRet, codeSyncBusy, codeSocket, codeOs, codeNoDef, codeBadSyntax,
                   codeDocOnly}}

(***************************************************************************)
(* hashlib.sha256(code.encode()).hexdigest(): a digest is a value of its   *)
(* own kind, and distinct texts have distinct digests.                     *)
(***************************************************************************)
Sha256(code) == [sha256 |-> code]

(***************************************************************************)
(* _validate_code_safety                                                   *)
(***************************************************************************)
\* a list without the pattern for file(
dangerous_patterns_short ==
    <<"import_os", "import_sys", "__import__", "exec(", "eval(", "open(">>

dangerous_patterns ==
    <<"import_os", "import_sys", "__import__", "exec(", "eval(", "open(", "file(",
      "subprocess">>

allowed_imports == {"json", "datetime", "re", "math", "uuid", "hashlib", "asyncio"}

\* the word that follows the keyword import in a line: `import m`,
\* `import m, n` and `from m import x` are <<"import", m>>,
\* <<"import_list", m, n>> and <<"from_import", m, x>>
AfterImport(line) ==
    CASE line[1] \in {"import", "import_list"} -> <<line[2]>>
      [] line[1] = "from_import" /\ line[3] # "*" -> <<line[3]>>
      [] OTHER -> <<>>

\* re.search(pattern, line, re.IGNORECASE): the patterns for open( and file(
\* start at a word boundary, the others match inside longer words too
LineMatches(pattern, line) ==
    \/ pattern = "import_os" /\ AfterImport(line) = <<"os">>
    \/ pattern = "import_sys" /\ AfterImport(line) = <<"sys">>
    \/ line = <<"expr", pattern>>
    \/ pattern = "eval(" /\ line = <<"expr", "retrieval(">>
    \/ pattern = "subprocess" /\ \E i \in DOMAIN line : line[i] = "subprocess"

CodeMatches(pattern, code) == \E i \in DOMAIN code : LineMatches(pattern, code[i])

\* re.findall(r'import\s+(\w+)', code), in order of occurrence
RECURSIVE ImportMatches(_)
ImportMatches(code) ==
    IF code = <<>> THEN <<>>
    ELSE AfterImport(Head(code)) \o ImportMatches(Tail(code))

\* 'def execute(' in code
HasExecuteText(code) ==
    \E i \in DOMAIN code :
        \/ code[i][1] \in {"def_execute", "async_def_execute"}
        \/ code[i] = <<"text", "def execute(">>

NoError == [err |-> "none", msg |-> <<>>]

\* a validator that looks for the entry point before anything else
ValidateCodeSafetyEntryFirst(code, tool_id) ==
    LET hits == {i \in DOMAIN dangerous_patterns : CodeMatches(dangerous_patterns[i], code)}
        mods == ImportMatches(code)
        bad == {i \in DOMAIN mods : mods[i] \notin allowed_imports}
    IN  IF ~HasExecuteText(code)
        THEN [err |-> "ValueError", msg |-> <<"must define an execute function", tool_id>>]
        ELSE IF hits # {}
        THEN [err |-> "SecurityError",
              msg |-> <<"Dangerous code pattern detected", tool_id,
                        dangerous_patterns[SetMin(hits)]>>]
        ELSE IF bad # {}
        THEN [err |-> "SecurityError",
              msg |-> <<"Disallowed import", tool_id, mods[SetMin(bad)]>>]
        ELSE NoError

ValidateCodeSafety(code, tool_id) ==
    LET hits == {i \in DOMAIN dangerous_patterns : CodeMatches(dangerous_patterns[i], code)}
        mods == ImportMatches(code)
        bad == {i \in DOMAIN mods : mods[i] \notin allowed_imports}
    IN  IF hits # {}
        THEN [err |-> "SecurityError",
              msg |-> <<"Dangerous code pattern detected", tool_id,
                        dangerous_patterns[SetMin(hits)]>>]
        ELSE IF bad # {}
        THEN [err |-> "SecurityError",
              msg |-> <<"Disallowed import", tool_id, mods[SetMin(bad)]>>]
        ELSE IF ~HasExecuteText(code)
        THEN [err |-> "ValueError", msg |-> <<"must define an execute function", tool_id>>]
        ELSE NoError

(***************************************************************************)
(* _compile_code: compile() and exec() the text, take local_vars['execute']*)
(***************************************************************************)
DefLines(code) == {i \in DOMAIN code : code[i][1] \in {"def_execute", "async_def_execute"}}

\* the function object bound to the name execute: the last definition wins
BuiltFunc(code) ==
    LET d == CHOOSE i \in DefLines(code) : \A j \in DefLines(code) : j <= i
    IN  [coro |-> code[d][1] = "async_def_execute",
         body |-> SubSeq(code, d + 1, Len(code))]

CompileCode(code, tool_id) ==
    IF \E i \in DOMAIN code : code[i][1] = "syntax_error"
    THEN [err |-> "SyntaxError", msg |-> <<"invalid syntax", tool_id>>]
    ELSE IF DefLines(code) = {}
    THEN [err |-> "ValueError", msg |-> <<"does not define execute function", tool_id>>]
    ELSE NoError

(***************************************************************************)
(* compile_tool, get_compiled_tool, clear_cache                            *)
(***************************************************************************)
\* an instance that keeps the entry point of the first source built for the tool
CompiledToolMixed(tool_doc, func, code_hash, stamp) ==
    [tool_id |-> tool_doc.tool_id, name |-> tool_doc.name,
     func |-> IF tool_doc.tool_id \in DOMAIN compiled_cache
              THEN compiled_cache[tool_doc.tool_id].func ELSE func,
     input_schema |-> tool_doc.input_schema, code_hash |-> code_hash,
     compiled_at |-> stamp]

\* construction that writes the new fields into the instance already cached
CompiledToolInPlace(tool_doc, func, code_hash, stamp) ==
    [tool_id |-> tool_doc.tool_id, name |-> tool_doc.name, func |-> func,
     input_schema |-> tool_doc.input_schema, code_hash |-> code_hash,
     compiled_at |-> IF tool_doc.tool_id \in DOMAIN compiled_cache
                     THEN compiled_cache[tool_doc.tool_id].compiled_at ELSE stamp]

CompiledTool(tool_doc, func, code_hash, stamp) ==
    [tool_id |-> tool_doc.tool_id, name |-> tool_doc.name, func |-> func,
     input_schema |-> tool_doc.input_schema, code_hash |-> code_hash,
     compiled_at |-> stamp]

\* a cache check that never finds an entry
CacheHitNever(cache, tool_id, code_hash) == FALSE

\* a cache check that looks at the tool id only
CacheHitById(cache, tool_id, code_hash) == tool_id \in DOMAIN cache

\* the cache check of compile_tool
CacheHit(cache, tool_id, code_hash) ==
    tool_id \in DOMAIN cache /\ cache[tool_id].code_hash = code_hash

\* a compile_tool that caches the new CompiledTool before it validates the code
CompileResultStoreFirst(cache, n, tool_doc) ==
    LET tool_id == tool_doc.tool_id
        code == tool_doc.code
        v == ValidateCodeSafety(code, tool_id)
        b == CompileCode(code, tool_id)
        made == CompiledTool(tool_doc, [coro |-> FALSE, body |-> <<>>], Sha256(code), n + 1)
        stored == DictPut(cache, tool_id, made)
    IN  IF CacheHit(cache, tool_id, Sha256(code))
        THEN [cache |-> cache, builds |-> n, err |-> NoError, ret |-> <<cache[tool_id]>>,
              validated |-> FALSE, built |-> FALSE]
        ELSE IF v.err # "none"
        THEN [cache |-> stored, builds |-> n + 1, err |-> v, ret |-> <<>>,
              validated |-> TRUE, built |-> FALSE]
        ELSE IF b.err # "none"
        THEN [cache |-> stored, builds |-> n + 1, err |-> b, ret |-> <<>>,
              validated |-> TRUE, built |-> TRUE]
        ELSE [cache |-> DictPut(cache, tool_id, [made EXCEPT !.func = BuiltFunc(code)]),
              builds |-> n + 1, err |-> NoError,
              ret |-> <<[made EXCEPT !.func = BuiltFunc(code)]>>,
              validated |-> TRUE, built |-> TRUE]

\* a compile_tool that drops the tool's entry when the new source is refused
CompileResultDropOnFailure(cache, n, tool_doc) ==
    LET tool_id == tool_doc.tool_id
        code == tool_doc.code
        code_hash == Sha256(code)
        v == ValidateCodeSafety(code, tool_id)
        b == CompileCode(code, tool_id)
        made == CompiledTool(tool_doc, BuiltFunc(code), code_hash, n + 1)
        dropped == [t \in DOMAIN cache \ {tool_id} |-> cache[t]]
    IN  IF CacheHit(cache, tool_id, code_hash)
        THEN [cache |-> cache, builds |-> n, err |-> NoError, ret |-> <<cache[tool_id]>>,
              validated |-> FALSE, built |-> FALSE]
        ELSE IF v.err # "none"
        THEN [cache |-> dropped, builds |-> n, err |-> v, ret |-> <<>>,
              validated |-> TRUE, built |-> FALSE]
        ELSE IF b.err # "none"
        THEN [cache |-> dropped, builds |-> n, err |-> b, ret |-> <<>>,
              validated |-> TRUE, built |-> TRUE]
        ELSE [cache |-> DictPut(cache, tool_id, made), builds |-> n + 1, err |-> NoError,
              ret |-> <<made>>, validated |-> TRUE, built |-> TRUE]

\* a compile_tool that gives a rebuilt entry the hash the tool was first cached under
CompileResultStaleHash(cache, n, tool_doc) ==
    LET tool_id == tool_doc.tool_id
        code == tool_doc.code
        code_hash == Sha256(code)
        v == ValidateCodeSafety(code, tool_id)
        b == CompileCode(code, tool_id)
        made == CompiledTool(tool_doc, BuiltFunc(code),
                             IF tool_id \in DOMAIN cache THEN cache[tool_id].code_hash
                             ELSE code_hash,
                             n + 1)
    IN  IF CacheHit(cache, tool_id, code_hash)
        THEN [cache |-> cache, builds |-> n, err |-> NoError, ret |-> <<cache[tool_id]>>,
              validated |-> FALSE, built |-> FALSE]
        ELSE IF v.err # "none"
        THEN [cache |-> cache, builds |-> n, err |-> v, ret |-> <<>>,
              validated |-> TRUE, built |-> FALSE]
        ELSE IF b.err # "none"
        THEN [cache |-> cache, builds |-> n, err |-> b, ret |-> <<>>,
              validated |-> TRUE, built |-> TRUE]
        ELSE [cache |-> DictPut(cache, tool_id, made), builds |-> n + 1, err |-> NoError,
              ret |-> <<made>>, validated |-> TRUE, built |-> TRUE]

\* what compile_tool(tool_doc) does to the cache (n instances built so far) and returns
CompileResult(cache, n, tool_doc) ==
    LET tool_id == tool_doc.tool_id
        code == tool_doc.code
        code_hash == Sha256(code)
        v == ValidateCodeSafety(code, tool_id)
        b == CompileCode(code, tool_id)
        made == CompiledTool(tool_doc, BuiltFunc(code), code_hash, n + 1)
    IN  IF CacheHit(cache, tool_id, code_hash)
        THEN [cache |-> cache, builds |-> n, err |-> NoError, ret |-> <<cache[tool_id]>>,
              validated |-> FALSE, built |-> FALSE]
        ELSE IF v.err # "none"
        THEN [cache |-> cache, builds |-> n, err |-> v, ret |-> <<>>,
              validated |-> TRUE, built |-> FALSE]
        ELSE IF b.err # "none"
        THEN [cache |-> cache, builds |-> n, err |-> b, ret |-> <<>>,
              validated |-> TRUE, built |-> TRUE]
        ELSE [cache |-> DictPut(cache, tool_id, made), builds |-> n + 1, err |-> NoError,
              ret |-> <<made>>, validated |-> TRUE, built |-> TRUE]

\* `before` is history: the cache as the call found it
NoCall == [op |-> "none", tool |-> "", code |-> <<>>, err |-> NoError, ret |-> <<>>,
           validated |-> FALSE, built |-> FALSE, before |-> EmptyDict]

CompileTool(tool_doc) ==
    \E r \in {CompileResult(compiled_cache, builds, tool_doc)} :
        /\ r.builds <= MaxCompiles
        /\ compiled_cache' = r.cache
        /\ builds' = r.builds
        /\ submitted' = DictPut(submitted, tool_doc.tool_id, tool_doc.code)
        /\ last' = [op |-> "compile", tool |-> tool_doc.tool_id, code |-> tool_doc.code,
                    err |-> r.err, ret |-> r.ret, validated |-> r.validated,
                    built |-> r.built, before |-> compiled_cache]
        /\ UNCHANGED <<db, registered_tools, trees>>

\* get_compiled_tool: self.compiled_cache.get(tool_id), None being <<>>
GetCompiledTool(cache, tool_id) ==
    IF tool_id \in DOMAIN cache THEN <<cache[tool_id]>> ELSE <<>>

\* a caller reads the cache with get_compiled_tool(tool_id)
GetCompiledToolCall(tool_id) ==
    /\ last' = [NoCall EXCEPT !.op = "get", !.tool = tool_id,
                              !.ret = GetCompiledTool(compiled_cache, tool_id),
                              !.before = compiled_cache]
    /\ UNCHANGED <<compiled_cache, builds, submitted, db, registered_tools, trees>>

ClearCache ==
    /\ compiled_cache # EmptyDict
    /\ compiled_cache' = EmptyDict
    /\ last' = [NoCall EXCEPT !.op = "clear", !.before = compiled_cache]
    /\ UNCHANGED <<builds, submitted, db, registered_tools, trees>>

(***************************************************************************)
(* ToolLoader: the queries against the tools collection                    *)
(***************************************************************************)
\* the query {'tenants': tenant_id}: the document has the field and lists the tenant
MatchesTenant(doc, tenant_id) ==
    "tenants" \in DOMAIN doc /\ tenant_id \in doc.tenants

\* a filter that lets every document through
IsActiveUnfiltered(doc) == TRUE

IsActive(doc) == doc.active

ActiveFor(doc, tenant_id) == IsActive(doc) /\ MatchesTenant(doc, tenant_id)

load_all_tools(store) == SelectSeq(store, IsActive)

load_tenant_tools(store, tenant_id) ==
    LET Wanted(doc) == ActiveFor(doc, tenant_id) IN SelectSeq(store, Wanted)

\* `if tenant_id:` adds the tenant filter only for a tenant that is given
load_tool(store, tool_id, tenant_id) ==
    LET Wanted(doc) ==
            /\ doc.tool_id = tool_id
            /\ IsActive(doc)
            /\ (tenant_id # NoTenant => MatchesTenant(doc, tenant_id))
        found == SelectSeq(store, Wanted)
    IN  IF found = <<>> THEN <<>> ELSE <<Head(found)>>

\* get_tool_schema: the projection of the document load_tool's query finds
get_tool_schema(store, tool_id, tenant_id) ==
    LET found == load_tool(store, tool_id, tenant_id)
    IN  IF found = <<>> THEN <<>>
        ELSE <<[name |-> found[1].name,
                description |-> IF "description" \in DOMAIN found[1]
                                THEN found[1].description
                                ELSE <<found[1].name, "tool">>,
                inputSchema |-> found[1].input_schema]>>

(***************************************************************************)
(* DynamicToolRegistry                                                     *)
(***************************************************************************)
\* a loop that logs a failed document and goes on with the next
RECURSIVE RegisterAllSkipFailed(_, _)
RegisterAllSkipFailed(docs, st) ==
    IF docs = <<>> THEN st
    ELSE LET doc == Head(docs)
             r == CompileResult(st.cache, st.builds, doc)
         IN  RegisterAllSkipFailed(Tail(docs),
                 [cache |-> r.cache, builds |-> r.builds,
                  submitted |-> DictPut(st.submitted, doc.tool_id, doc.code),
                  registered |-> IF r.err.err = "none"
                                 THEN st.registered \cup {doc.tool_id}
                                 ELSE st.registered,
                  err |-> IF st.err.err # "none" THEN st.err ELSE r.err])

\* _register_tool for each document in turn; the first failure stops the loop
RECURSIVE RegisterAll(_, _)
RegisterAll(docs, st) ==
    IF docs = <<>> \/ st.err.err # "none" THEN st
    ELSE LET doc == Head(docs)
             r == CompileResult(st.cache, st.builds, doc)
         IN  RegisterAll(Tail(docs),
                 [cache |-> r.cache, builds |-> r.builds,
                  submitted |-> DictPut(st.submitted, doc.tool_id, doc.code),
                  registered |-> IF r.err.err = "none"
                                 THEN st.registered \cup {doc.tool_id}
                                 ELSE st.registered,
                  err |-> r.err])

LoadAndRegisterTools(tenant_id) ==
    LET tools == IF tenant_id # NoTenant THEN load_tenant_tools(db, tenant_id)
                 ELSE load_all_tools(db)
    IN  \E st \in {RegisterAll(tools,
                      [cache |-> compiled_cache, builds |-> builds, submitted |-> submitted,
                       registered |-> registered_tools, err |-> NoError])} :
        /\ st.builds <= MaxCompiles
        /\ compiled_cache' = st.cache
        /\ builds' = st.builds
        /\ submitted' = st.submitted
        /\ registered_tools' = st.registered
        /\ last' = [NoCall EXCEPT !.op = "load", !.tool = tenant_id, !.err = st.err,
                                  !.before = compiled_cache]
        /\ UNCHANGED <<db, trees>>

\* reload_tool(tool_id, tenant_id): the document is read again and registered;
\* a document that is not found is only logged.  `doc` is history: what
\* load_tool found.
ReloadTool(tool_id, tenant_id) ==
    \E found \in {load_tool(db, tool_id, tenant_id)} :
        IF found = <<>>
        THEN /\ last' = [op |-> "reload", tool |-> tool_id, code |-> <<>>, err |-> NoError,
                         ret |-> <<>>, validated |-> FALSE, built |-> FALSE,
                         before |-> compiled_cache, doc |-> found]
             /\ UNCHANGED <<compiled_cache, builds, submitted, db, registered_tools, trees>>
        ELSE \E r \in {CompileResult(compiled_cache, builds, found[1])} :
                /\ r.builds <= MaxCompiles
                /\ compiled_cache' = r.cache
                /\ builds' = r.builds
                /\ submitted' = DictPut(submitted, tool_id, found[1].code)
                /\ registered_tools' = IF r.err.err = "none"
                                       THEN registered_tools \cup {tool_id}
                                       ELSE registered_tools
                /\ last' = [op |-> "reload", tool |-> tool_id, code |-> found[1].code,
                            err |-> r.err, ret |-> r.ret, validated |-> r.validated,
                            built |-> r.built, before |-> compiled_cache, doc |-> found]
                /\ UNCHANGED <<db, trees>>

\* self.registered_tools.get(tool_id, False)
is_tool_registered(registered, tool_id) == tool_id \in registered

\* collection.update_one({"tool_id": tool_id}, {"$set": {field: value}}) by an
\* administrator's script: the first document with the tool id is changed
UpdateOne(tool_id, field, value) ==
    LET hits == {i \in DOMAIN db : db[i].tool_id = tool_id}
    IN  /\ hits # {}
        /\ db[SetMin(hits)][field] # value
        /\ db' = [db EXCEPT ![SetMin(hits)][field] = value]
        /\ UNCHANGED <<compiled_cache, builds, submitted, registered_tools, trees, last>>

\* a clear_registry that empties the compilation cache and keeps the marks
ClearRegistryCacheOnly ==
    /\ compiled_cache # EmptyDict \/ registered_tools # {}
    /\ registered_tools' = registered_tools
    /\ compiled_cache' = EmptyDict
    /\ last' = [NoCall EXCEPT !.op = "clear_registry", !.before = compiled_cache]
    /\ UNCHANGED <<builds, submitted, db, trees>>

ClearRegistry ==
    /\ compiled_cache # EmptyDict \/ registered_tools # {}
    /\ registered_tools' = {}
    /\ compiled_cache' = EmptyDict
    /\ last' = [NoCall EXCEPT !.op = "clear_registry", !.before = compiled_cache]
    /\ UNCHANGED <<builds, submitted, db, trees>>

(***************************************************************************)
(* Execution.  A tree is one top-level execute_tool call with the          *)
(* ToolContext it creates; frames are the execute_tool invocations of      *)
(* coroutine entry points that are in progress, innermost last.            *)
(***************************************************************************)
Outcome(kind, val, took) == [kind |-> kind, val |-> val, took |-> took]

\* `entered` is history: the entry points this tree has run, each with the code
\* that was the latest submitted for its tool when it was entered
IdleTree ==
    [status |-> "idle", call |-> [tool_id |-> "", tenant_id |-> NoTenant],
     tenant_id |-> NoTenant, call_stack |-> <<>>, frames |-> <<>>, result |-> <<>>,
     entered |-> <<>>]

\* `saved` is history: the call_stack as call_tool found it
NewFrame(art, saved) ==
    [tool |-> art.tool_id, art |-> art, pc |-> 1, elapsed |-> 0, got |-> <<>>,
     done |-> <<>>, saved |-> saved]

Entered(art) == [art |-> art, latest |-> submitted[art.tool_id]]

\* compiled_tool.func(**enhanced_params) for a plain function: it runs to its end
RECURSIVE RunPlain(_, _)
RunPlain(body, t) ==
    IF body = <<>> THEN Outcome("ok", <<"None">>, t)
    ELSE CASE Head(body)[1] = "busy" -> RunPlain(Tail(body), t + BusyUnits)
           [] Head(body)[1] = "return" -> Outcome("ok", <<Head(body)[2]>>, t)
           [] Head(body)[1] = "raise" -> Outcome("fault", <<Head(body)[2]>>, t)
           [] OTHER -> RunPlain(Tail(body), t)

\* execute_tool up to the point where it returns, raises or suspends in wait_for
StartExec(cache, tool_id) ==
    IF tool_id \notin DOMAIN cache
    THEN [state |-> "raised", outcome |-> Outcome("notcompiled", <<tool_id>>, 0)]
    ELSE LET compiled_tool == cache[tool_id]
         IN  IF compiled_tool.func.coro
             THEN [state |-> "suspended", art |-> compiled_tool]
             ELSE [state |-> "returned", art |-> compiled_tool,
                   outcome |-> RunPlain(compiled_tool.func.body, 0)]

\* a membership test that also rejects every call made from depth two or more
InStackDepthLimited(call_stack, tool_id) ==
    tool_id \in Range(call_stack) \/ Len(call_stack) >= 1

\* a test that looks at the last id pushed only
InStackTop(call_stack, tool_id) ==
    call_stack # <<>> /\ call_stack[Len(call_stack)] = tool_id

\* `tool_id in self.call_stack`
InStack(call_stack, tool_id) == tool_id \in Range(call_stack)

\* the message ' -> '.join(self.call_stack) + ' -> ' + tool_id, as the chain it spells
Circular(call_stack, tool_id) == Outcome("circular", Append(call_stack, tool_id), 0)

\* what the caller of execute_tool or call_tool catches for a failed call: the
\* class of the exception and its __cause__.  The entry point's own exception
\* is re-raised as it is.
Surfaced(outcome) ==
    CASE outcome.kind = "circular" -> [type |-> "ValueError", cause |-> <<>>]
      [] outcome.kind = "notcompiled" -> [type |-> "ValueError", cause |-> <<>>]
      [] outcome.kind = "timeout" -> [type |-> "TimeoutError", cause |-> <<>>]
      [] outcome.kind = "fault" -> [type |-> outcome.val[1], cause |-> <<>>]
      [] OTHER -> [type |-> "none", cause |-> <<>>]

\* a pop placed after the await instead of in a finally clause
AfterCallPopOnReturn(call_stack, outcome) ==
    IF outcome.kind = "ok" THEN SubSeq(call_stack, 1, Len(call_stack) - 1) ELSE call_stack

\* finally: self.call_stack.pop()
AfterCall(call_stack, outcome) == SubSeq(call_stack, 1, Len(call_stack) - 1)

Aged(frames, d) == [i \in DOMAIN frames |-> [frames[i] EXCEPT !.elapsed = @ + d]]

AgedTree(tr, d) == [tr EXCEPT !.frames = Aged(@, d)]

\* the innermost entry point gets the outcome of the call it awaits: a result
\* resumes it, an exception resumes it inside try/except or ends it
Deliver(frames, outcome) ==
    LET n == Len(frames)
        f == frames[n]
        line == f.art.func.body[f.pc]
    IN  IF outcome.kind = "ok" \/ line[1] = "try_call"
        THEN [frames EXCEPT ![n].got = Append(@, outcome), ![n].pc = @ + 1]
        ELSE [frames EXCEPT ![n].done = <<[outcome EXCEPT !.took = f.elapsed]>>]

\* a call_tool that appends the tool id before it looks for it in the stack
CallToolPushFirst(tr, cache, tool_id) ==
    LET pushed == Append(tr.call_stack, tool_id)
        r == StartExec(cache, tool_id)
    IN  CASE InStack(tr.call_stack, tool_id) ->
               [tree |-> [tr EXCEPT !.call_stack = pushed,
                                    !.frames = Deliver(@, Circular(tr.call_stack, tool_id))],
                took |-> 0]
          [] r.state = "suspended" ->
               [tree |-> [tr EXCEPT !.call_stack = pushed,
                                    !.frames = Append(@, NewFrame(r.art, tr.call_stack)),
                                    !.entered = Append(@, Entered(r.art))],
                took |-> 0]
          [] r.state = "returned" ->
               [tree |-> [tr EXCEPT !.call_stack = AfterCall(pushed, r.outcome),
                                    !.frames = Deliver(Aged(@, r.outcome.took), r.outcome),
                                    !.entered = Append(@, Entered(r.art))],
                took |-> r.outcome.took]
          [] OTHER ->
               [tree |-> [tr EXCEPT !.call_stack = AfterCall(pushed, r.outcome),
                                    !.frames = Deliver(@, r.outcome)],
                took |-> 0]

\* ToolContext.call_tool, up to the callee's first suspension
CallTool(tr, cache, tool_id) ==
    IF InStack(tr.call_stack, tool_id)
    THEN [tree |-> [tr EXCEPT !.frames = Deliver(@, Circular(tr.call_stack, tool_id))],
          took |-> 0]
    ELSE LET pushed == Append(tr.call_stack, tool_id)
             r == StartExec(cache, tool_id)
         IN  CASE r.state = "suspended" ->
                    [tree |-> [tr EXCEPT !.call_stack = pushed,
                                         !.frames = Append(@, NewFrame(r.art, tr.call_stack)),
                                         !.entered = Append(@, Entered(r.art))],
                     took |-> 0]
               [] r.state = "returned" ->
                    [tree |-> [tr EXCEPT !.call_stack = AfterCall(pushed, r.outcome),
                                         !.frames = Deliver(Aged(@, r.outcome.took), r.outcome),
                                         !.entered = Append(@, Entered(r.art))],
                     took |-> r.outcome.took]
               [] OTHER ->
                    [tree |-> [tr EXCEPT !.call_stack = AfterCall(pushed, r.outcome),
                                         !.frames = Deliver(@, r.outcome)],
                     took |-> 0]

Finish(frames, kind, val) ==
    LET n == Len(frames)
    IN  [frames EXCEPT ![n].done = <<Outcome(kind, val, frames[n].elapsed)>>]

\* the next line of the innermost entry point
NextLine(tr) ==
    LET f == tr.frames[Len(tr.frames)]
    IN  IF f.pc > Len(f.art.func.body) THEN <<"end", "">> ELSE f.art.func.body[f.pc]

CanStep(tr) ==
    /\ tr.status = "running"
    /\ tr.frames[Len(tr.frames)].done = <<>>
    /\ NextLine(tr)[1] # "hang"

\* the innermost entry point runs until its next await or its end
StepTree(tr, cache) ==
    LET line == NextLine(tr)
    IN  CASE line[1] \in {"call", "try_call"} -> CallTool(tr, cache, line[2])
          [] line[1] = "return" ->
                [tree |-> [tr EXCEPT !.frames = Finish(@, "ok", <<line[2]>>)], took |-> 0]
          [] line[1] = "raise" ->
                [tree |-> [tr EXCEPT !.frames = Finish(@, "fault", <<line[2]>>)], took |-> 0]
          [] OTHER ->
                [tree |-> [tr EXCEPT !.frames = Finish(@, "ok", <<"None">>)], took |-> 0]

RECURSIVE Unwind(_, _)
Unwind(call_stack, count) ==
    IF count = 0 THEN call_stack
    ELSE Unwind(AfterCall(call_stack, Outcome("cancelled", <<>>, 0)), count - 1)

\* a timeout that drops the awaited entry points without running the finally
\* clauses of their call_tool calls
TimeoutTreeNoFinally(tr, i) ==
    [tr EXCEPT !.frames = Finish(SubSeq(@, 1, i), "timeout", <<>>)]

\* wait_for of frame i expires: the entry points it awaits are cancelled, each
\* call_tool on the way out runs its finally, and execute_tool raises TimeoutError.
\* Deadlines that fall on the same clock reading fire in either order.
TimeoutTree(tr, i) ==
    [tr EXCEPT !.call_stack = Unwind(@, Len(tr.frames) - i),
               !.frames = Finish(SubSeq(@, 1, i), "timeout", <<>>)]

\* a finished execute_tool hands its outcome to whoever awaits it
ResumeTree(tr) ==
    LET n == Len(tr.frames)
        out == tr.frames[n].done[1]
    IN  IF n = 1
        THEN [tr EXCEPT !.status = "idle", !.frames = <<>>, !.result = <<out>>]
        ELSE [tr EXCEPT !.call_stack = AfterCall(@, out),
                        !.frames = Deliver(SubSeq(@, 1, n - 1), out)]

(***************************************************************************)
(* Actions of the execution engine                                         *)
(***************************************************************************)
\* one call_stack list shared by the contexts of all trees
OthersSharedStack(k, tr, d) ==
    [j \in DOMAIN trees |->
        IF j = k THEN tr
        ELSE [AgedTree(trees[j], d) EXCEPT !.call_stack = tr.call_stack]]

\* every other tree's clock moves on while the event loop is blocked for d
Others(k, tr, d) == [j \in DOMAIN trees |-> IF j = k THEN tr ELSE AgedTree(trees[j], d)]

\* a top-level execute_tool(tool_id, params, tenant_id): context is None
ExecuteTool(k, tool_id, tenant_id) ==
    \E r \in {StartExec(compiled_cache, tool_id)} :
    LET fresh == [IdleTree EXCEPT !.call = [tool_id |-> tool_id, tenant_id |-> tenant_id],
                                  !.tenant_id = tenant_id]
        tr == CASE r.state = "suspended" ->
                     [fresh EXCEPT !.status = "running",
                                   !.frames = <<NewFrame(r.art, <<>>)>>,
                                   !.entered = <<Entered(r.art)>>]
                [] r.state = "returned" ->
                     [fresh EXCEPT !.result = <<r.outcome>>, !.entered = <<Entered(r.art)>>]
                [] OTHER -> [fresh EXCEPT !.result = <<r.outcome>>]
    IN  /\ trees[k].status = "idle"
        /\ trees' = Others(k, tr, IF r.state = "returned" THEN r.outcome.took ELSE 0)
        /\ UNCHANGED <<compiled_cache, builds, submitted, db, registered_tools, last>>

\* a client invokes the wrapper FastMCP holds for a tool the registry reports
\* as registered: execute_tool(tool_id, tool_params, None)
ToolWrapper(tool_id) ==
    /\ is_tool_registered(registered_tools, tool_id)
    /\ ExecuteTool(1, tool_id, NoTenant)

Step(k) ==
    /\ CanStep(trees[k])
    /\ \E r \in {StepTree(trees[k], compiled_cache)} :
          trees' = Others(k, r.tree, r.took)
    /\ UNCHANGED <<compiled_cache, builds, submitted, db, registered_tools, last>>

Resume(k) ==
    /\ trees[k].status = "running"
    /\ trees[k].frames[Len(trees[k].frames)].done # <<>>
    /\ trees' = [trees EXCEPT ![k] = ResumeTree(@)]
    /\ UNCHANGED <<compiled_cache, builds, submitted, db, registered_tools, last>>

Timeout(k, i) ==
    /\ i \in DOMAIN trees[k].frames
    /\ trees[k].frames[i].done = <<>>
    /\ trees[k].frames[i].elapsed >= TIMEOUT
    /\ trees' = [trees EXCEPT ![k] = TimeoutTree(@, i)]
    /\ UNCHANGED <<compiled_cache, builds, submitted, db, registered_tools, last>>

\* the frames whose wait_for is still pending, as <<tree, frame>>
Pending ==
    UNION {{<<k, i>> : i \in {j \in DOMAIN trees[k].frames : trees[k].frames[j].done = <<>>}} :
             k \in DOMAIN trees}

\* time passes while every entry point is suspended; it stops at the next deadline
Tick ==
    /\ Pending # {}
    /\ \A k \in DOMAIN trees : \A i \in DOMAIN trees[k].frames :
          /\ trees[k].frames[i].done = <<>>
          /\ trees[k].frames[i].elapsed < TIMEOUT
    /\ LET left == {TIMEOUT - trees[p[1]].frames[p[2]].elapsed : p \in Pending}
           d == Min(TickStep, SetMin(left))
       IN  trees' = [k \in DOMAIN trees |-> AgedTree(trees[k], d)]
    /\ UNCHANGED <<compiled_cache, builds, submitted, db, registered_tools, last>>

(***************************************************************************)
(* Execution with calls awaited together.  An entry point may hand several  *)
(* call_tool coroutines to asyncio.gather, which runs each as a task of its *)
(* own, so the invocations of a top-level call form a tree.  Here a tree    *)
(* record holds the ToolContext objects created (`contexts`), every         *)
(* call_tool / execute_tool call made (`invs`, in order of creation) and    *)
(* the tasks gather has created that the event loop has yet to run          *)
(* (`ready`, first in first out).                                           *)
(***************************************************************************)
IdleGather ==
    [status |-> "idle", contexts |-> <<>>, invs |-> <<>>, ready |-> <<>>, result |-> <<>>,
     runs |-> 0]

\* a call: `parent` is the invocation that makes it (0 for the top-level
\* caller), `via` how it is awaited, `caller_ctx` the ToolContext whose
\* call_tool it is (0 for a top-level execute_tool), `ctx` the ToolContext its
\* entry point is given (0 while there is none).  `found` and `popped` are
\* history: the call_stack as call_tool found it and the id its pop removed.
Invocation(tool_id, parent, via, caller_ctx, tenant_id) ==
    [tool |-> tool_id, parent |-> parent, via |-> via, caller_ctx |-> caller_ctx,
     tenant_id |-> tenant_id, ctx |-> 0, state |-> "created", pushed |-> FALSE,
     found |-> <<>>, popped |-> <<>>, outcome |-> <<>>, art |-> <<>>, pc |-> 1]

\* a context made anew for every execute_tool call, nested ones too
ContextForAlwaysNew(given, contexts, tenant_id) ==
    [contexts |-> Append(contexts, [tenant_id |-> tenant_id, call_stack |-> <<>>]),
     ctx |-> Len(contexts) + 1]

\* `if context is None: context = ToolContext(self, tenant_id)`
ContextFor(given, contexts, tenant_id) ==
    IF given = 0
    THEN [contexts |-> Append(contexts, [tenant_id |-> tenant_id, call_stack |-> <<>>]),
          ctx |-> Len(contexts) + 1]
    ELSE [contexts |-> contexts, ctx |-> given]

\* the call of invocation j is over: call_tool's finally pops, and the awaiting
\* side gets the outcome.  A parent that awaits the call directly goes on
\* after a result and is ended by an exception; gather keeps results and
\* exceptions alike until all its calls are over.
EndCall(G, j, outcome) ==
    LET inv == G.invs[j]
        stack == G.contexts[inv.caller_ctx].call_stack
        G1 == IF inv.pushed
              THEN [G EXCEPT !.contexts[inv.caller_ctx].call_stack = AfterCall(stack, outcome),
                             !.invs[j].popped = <<stack[Len(stack)]>>]
              ELSE G
        G2 == [G1 EXCEPT !.invs[j].state = "done", !.invs[j].outcome = <<outcome>>]
    IN  CASE inv.via = "top" -> [G2 EXCEPT !.status = "idle", !.result = <<outcome>>]
          [] inv.via = "gather" -> G2
          [] OTHER ->
               IF outcome.kind = "ok"
               THEN [G2 EXCEPT !.invs[inv.parent].state = "active",
                               !.invs[inv.parent].pc = @ + 1]
               ELSE [G2 EXCEPT !.invs[inv.parent].state = "finished",
                               !.invs[inv.parent].outcome = <<outcome>>]

\* execute_tool(tool_id, params, tenant_id, context) for invocation j, up to
\* its return, its raise or the suspension in wait_for
ExecuteIn(G, cache, j, given) ==
    LET inv == G.invs[j]
        r == StartExec(cache, inv.tool)
        made == ContextFor(given, G.contexts, inv.tenant_id)
        G1 == [G EXCEPT !.contexts = made.contexts, !.invs[j].ctx = made.ctx,
                        !.invs[j].art = <<r.art>>]
    IN  CASE r.state = "raised" -> EndCall(G, j, r.outcome)
          [] r.state = "returned" -> EndCall(G1, j, r.outcome)
          [] OTHER -> [G1 EXCEPT !.invs[j].state = "active"]

\* ToolContext.call_tool for invocation j, up to the same points
EnterCall(G, cache, j) ==
    LET inv == G.invs[j]
        stack == G.contexts[inv.caller_ctx].call_stack
        G1 == [G EXCEPT !.invs[j].found = stack]
    IN  IF InStack(stack, inv.tool)
        THEN EndCall(G1, j, Circular(stack, inv.tool))
        ELSE ExecuteIn([G1 EXCEPT !.contexts[inv.caller_ctx].call_stack =
                                      Append(stack, inv.tool),
                                  !.invs[j].pushed = TRUE],
                       cache, j, inv.caller_ctx)

\* the line the entry point of an invocation stands at
LineOf(inv) ==
    IF inv.pc > Len(inv.art[1].func.body) THEN <<"end", "">> ELSE inv.art[1].func.body[inv.pc]

\* the entry point of invocation j runs until its next await or its end
StepInvocation(G, cache, j) ==
    LET inv == G.invs[j]
        line == LineOf(inv)
        n == Len(G.invs)
        child(t, via) ==
            Invocation(t, j, via, inv.ctx, G.contexts[inv.ctx].tenant_id)
    IN  CASE line[1] = "gather" ->
               [G EXCEPT !.invs = [@ EXCEPT ![j].state = "waiting"]
                                      \o <<child(line[2], "gather"), child(line[3], "gather")>>,
                         !.ready = @ \o <<n + 1, n + 2>>]
          [] line[1] \in {"call", "try_call"} ->
               EnterCall([G EXCEPT !.invs = Append([@ EXCEPT ![j].state = "waiting"],
                                                  child(line[2], "call"))],
                         cache, n + 1)
          [] line[1] = "return" ->
               [G EXCEPT !.invs[j].state = "finished",
                         !.invs[j].outcome = <<Outcome("ok", <<line[2]>>, 0)>>]
          [] line[1] = "raise" ->
               [G EXCEPT !.invs[j].state = "finished",
                         !.invs[j].outcome = <<Outcome("fault", <<line[2]>>, 0)>>]
          [] line[1] = "end" ->
               [G EXCEPT !.invs[j].state = "finished",
                         !.invs[j].outcome = <<Outcome("ok", <<"None">>, 0)>>]
          [] OTHER -> [G EXCEPT !.invs[j].pc = @ + 1]

\* the calls invocation j has handed to gather
Gathered(G, j) ==
    {i \in DOMAIN G.invs : G.invs[i].parent = j /\ G.invs[i].via = "gather"}

\* a top-level execute_tool(tool_id, params, tenant_id): context is None
GatherExecuteTool(k, tool_id, tenant_id) ==
    /\ trees[k].status = "idle"
    /\ trees[k].runs < MaxRuns
    /\ trees' = [trees EXCEPT ![k] =
                    ExecuteIn([IdleGather EXCEPT
                                  !.status = "running",
                                  !.runs = trees[k].runs + 1,
                                  !.invs = <<Invocation(tool_id, 0, "top", 0, tenant_id)>>],
                              compiled_cache, 1, 0)]
    /\ UNCHANGED <<compiled_cache, builds, submitted, db, registered_tools, last>>

\* the event loop runs the task gather created first: its call_tool starts
GatherBegin(k) ==
    /\ trees[k].ready # <<>>
    /\ trees' = [trees EXCEPT ![k] =
                    EnterCall([@ EXCEPT !.ready = Tail(@)], compiled_cache,
                              Head(trees[k].ready))]
    /\ UNCHANGED <<compiled_cache, builds, submitted, db, registered_tools, last>>

GatherStep(k, j) ==
    /\ j \in DOMAIN trees[k].invs
    /\ trees[k].invs[j].state = "active"
    /\ Len(trees[k].invs) + 2 <= MaxInvocations
          \/ LineOf(trees[k].invs[j])[1] \notin {"gather", "call", "try_call"}
    /\ trees' = [trees EXCEPT ![k] = StepInvocation(@, compiled_cache, j)]
    /\ UNCHANGED <<compiled_cache, builds, submitted, db, registered_tools, last>>

\* the execute_tool of a finished entry point returns or raises
GatherResume(k, j) ==
    /\ j \in DOMAIN trees[k].invs
    /\ trees[k].invs[j].state = "finished"
    /\ trees' = [trees EXCEPT ![k] = EndCall(@, j, trees[k].invs[j].outcome[1])]
    /\ UNCHANGED <<compiled_cache, builds, submitted, db, registered_tools, last>>

\* gather returns to the entry point that awaits it once all its calls are over
GatherJoin(k, j) ==
    /\ j \in DOMAIN trees[k].invs
    /\ trees[k].invs[j].state = "waiting"
    /\ Gathered(trees[k], j) # {}
    /\ \A i \in Gathered(trees[k], j) : trees[k].invs[i].state = "done"
    /\ trees' = [trees EXCEPT ![k].invs[j].state = "active", ![k].invs[j].pc = @ + 1]
    /\ UNCHANGED <<compiled_cache, builds, submitted, db, registered_tools, last>>

(***************************************************************************)
(* The user profiler of main.py.  A str is a string; the str methods the    *)
(* handlers use are given for the input values the callers send.            *)
(***************************************************************************)
Inputs == {"", "Ann", "learn AI", "I love programming", "YES", " Ready "}

\* str.strip()
Strip(text) ==
    CASE text = " " -> ""
      [] text = " Ready " -> "Ready"
      [] text = " ready " -> "ready"
      [] OTHER -> text

\* str.lower()
Lower(text) ==
    CASE text = "Ann" -> "ann"
      [] text = "learn AI" -> "learn ai"
      [] text = "I love programming" -> "i love programming"
      [] text = "YES" -> "yes"
      [] text = " Ready " -> " ready "
      [] OTHER -> text

\* `word in text_lower` for the words of _analyze_personality's lists
Occurs(word, text_lower) ==
    \/ text_lower = "i love programming" /\ word \in {"love", "programming"}
    \/ text_lower = "learn ai" /\ word \in {"learn", "ai"}

\* a str the profiler takes or returns is a JSON document or some other text
PlainText(text) == [kind |-> "text", value |-> text]

\* json.dumps(value)
JsonDumps(value) == [kind |-> "json", value |-> value]

\* json.loads(s): the value, or <<>> for JSONDecodeError
JsonLoads(s) == IF s.kind = "json" THEN <<s.value>> ELSE <<>>

DictGet(d, k, default) == IF k \in DOMAIN d THEN d[k] ELSE default

valid_stages ==
    <<"user_name", "user_purpose", "trust_acceptance", "passion_text", "confirmation">>

AnyOccurs(words, text_lower) == \E w \in words : Occurs(w, text_lower)

\* the topics whose keywords occur, in the order of topic_keywords
Topics(text_lower) ==
    LET keywords == << <<"technology", {"tech", "computer", "software", "programming", "code"}>>,
                       <<"AI", {"ai", "artificial intelligence", "machine learning", "ml"}>>,
                       <<"business", {"business", "startup", "entrepreneur", "company"}>>,
                       <<"education", {"learn", "teach", "education", "study"}>>,
                       <<"software", {"software", "development", "programming", "coding"}>> >>
        Hit(entry) == AnyOccurs(entry[2], text_lower)
        hits == SelectSeq(keywords, Hit)
    IN  [i \in DOMAIN hits |-> hits[i][1]]

_analyze_personality(passion_text) ==
    LET text_lower == Lower(passion_text)
        positive_words == {"love", "enjoy", "excited", "passionate", "amazing", "great"}
        topics == Topics(text_lower)
        level == (Len(passion_text) \div 20)
                     + Cardinality({w \in positive_words : Occurs(w, text_lower)})
    IN  [thinkingStyle |->
            IF AnyOccurs({"organize", "plan", "system", "process", "method", "structure"},
                         text_lower) THEN "structured"
            ELSE IF AnyOccurs({"create", "imagine", "art", "design", "innovative", "creative"},
                              text_lower) THEN "creative"
            ELSE "balanced",
         sentiment |->
            IF AnyOccurs(positive_words, text_lower) THEN "enthusiastic"
            ELSE IF AnyOccurs({"learn", "discover", "explore", "understand", "know", "find"},
                              text_lower) THEN "curious"
            ELSE "thoughtful",
         passionLevel |-> Min(5, IF level >= 1 THEN level ELSE 1),
         topics |-> SubSeq(topics, 1, Min(3, Len(topics)))]

_generate_final_profile(session_data) ==
    [userName |-> DictGet(session_data, "userName", ""),
     userResponses |-> [user_purpose |-> DictGet(session_data, "userPurpose", "")],
     personalityProfile |-> DictGet(session_data, "personality_preview", EmptyDict),
     privacyPreferences |-> [trustAccepted |-> DictGet(session_data, "trustAccepted", FALSE)],
     registrationCompleted |-> TRUE,
     registrationDate |-> "now"]

\* `not input_value or len(input_value.strip()) < n`
TooShort(input_value, n) == input_value = "" \/ Len(Strip(input_value)) < n

_process_user_name(input_value, session_data) ==
    IF TooShort(input_value, 1)
    THEN PlainText("Error: Please provide a valid name")
    ELSE JsonDumps([message |-> <<"Hello", input_value>>,
                    next_stage |-> "user_purpose",
                    session_data |-> DictPut(DictPut(session_data, "userName", input_value),
                                             "stage", "user_purpose")])

\* a handler that sends the caller past the trust stage
_process_user_purpose_skipping(input_value, session_data) ==
    IF TooShort(input_value, 5)
    THEN PlainText("Error: Please provide more details about your purpose")
    ELSE JsonDumps([message |-> <<"Great!">>,
                    next_stage |-> "passion_text",
                    session_data |-> DictPut(DictPut(session_data, "userPurpose", input_value),
                                             "stage", "passion_text")])

_process_user_purpose(input_value, session_data) ==
    IF TooShort(input_value, 5)
    THEN PlainText("Error: Please provide more details about your purpose")
    ELSE JsonDumps([message |-> <<"Great!">>,
                    next_stage |-> "trust_acceptance",
                    session_data |-> DictPut(DictPut(session_data, "userPurpose", input_value),
                                             "stage", "trust_acceptance")])

\* a handler that answers with a session of its own fields only
_process_trust_acceptance_fresh(input_value, session_data) ==
    LET trust_accepted ==
            Strip(Lower(input_value)) \in {"yes", "y", "true", "accept", "ok", "agree"}
    IN  JsonDumps([message |-> IF trust_accepted THEN <<"Thank you!">> ELSE <<"Understood.">>,
                   next_stage |-> "passion_text",
                   session_data |-> DictPut(DictPut(EmptyDict, "trustAccepted", trust_accepted),
                                            "stage", "passion_text")])

_process_trust_acceptance(input_value, session_data) ==
    LET trust_accepted ==
            Strip(Lower(input_value)) \in {"yes", "y", "true", "accept", "ok", "agree"}
    IN  JsonDumps([message |-> IF trust_accepted THEN <<"Thank you!">> ELSE <<"Understood.">>,
                   next_stage |-> "passion_text",
                   session_data |-> DictPut(DictPut(session_data, "trustAccepted",
                                                    trust_accepted),
                                            "stage", "passion_text")])

_process_passion_text(input_value, session_data) ==
    IF TooShort(input_value, 10)
    THEN PlainText("Error: Please share more about your passions")
    ELSE JsonDumps([message |-> <<"Thanks for sharing!",
                                  _analyze_personality(input_value).sentiment>>,
                    next_stage |-> "confirmation",
                    session_data |->
                        DictPut(DictPut(DictPut(session_data, "passionText", input_value),
                                        "stage", "confirmation"),
                                "personality_preview", _analyze_personality(input_value))])

_process_confirmation(input_value, session_data) ==
    IF Strip(Lower(input_value)) \notin {"ready", "confirm", "yes", "complete"}
    THEN JsonDumps([message |-> <<"Please type 'ready'">>, session_data |-> session_data])
    ELSE JsonDumps([message |-> <<"Profile completed successfully!">>,
                    profile |-> _generate_final_profile(session_data),
                    completed |-> TRUE])

\* a profiler that runs the handler of the stage the session says it is at
user_profiler_by_session(stage, input_value, session_data) ==
    IF stage \notin Range(valid_stages)
    THEN PlainText("Error: Invalid stage")
    ELSE LET session_data_dict ==
                 IF (session_data.kind = "text" /\ session_data.value = "")
                       \/ JsonLoads(session_data) = <<>>
                 THEN EmptyDict ELSE JsonLoads(session_data)[1]
             at == DictGet(session_data_dict, "stage", stage)
         IN  CASE at = "user_name" -> _process_user_name(input_value, session_data_dict)
               [] at = "user_purpose" ->
                      _process_user_purpose(input_value, session_data_dict)
               [] at = "trust_acceptance" ->
                      _process_trust_acceptance(input_value, session_data_dict)
               [] at = "passion_text" ->
                      _process_passion_text(input_value, session_data_dict)
               [] OTHER -> _process_confirmation(input_value, session_data_dict)

\* the tool user_profiler(stage, input_value, session_data)
user_profiler(stage, input_value, session_data) ==
    IF stage \notin Range(valid_stages)
    THEN PlainText("Error: Invalid stage")
    ELSE LET session_data_dict ==
                 IF (session_data.kind = "text" /\ session_data.value = "")
                       \/ JsonLoads(session_data) = <<>>
                 THEN EmptyDict ELSE JsonLoads(session_data)[1]
         IN  CASE stage = "user_name" -> _process_user_name(input_value, session_data_dict)
               [] stage = "user_purpose" ->
                      _process_user_purpose(input_value, session_data_dict)
               [] stage = "trust_acceptance" ->
                      _process_trust_acceptance(input_value, session_data_dict)
               [] stage = "passion_text" ->
                      _process_passion_text(input_value, session_data_dict)
               [] OTHER -> _process_confirmation(input_value, session_data_dict)

\* The builtin UserProfiler.execute: it strips input_value before anything
\* else and parses session_data before it looks at the stage; its handlers
\* are, line for line, those of main.py.
UserProfilerExecute(stage, input_value, session_data) ==
    user_profiler(stage, Strip(input_value), session_data)

\* The names an entry point built by _compile_code can use: exec is given
\* safe_globals as globals and a dict of its own as locals, so what the code
\* defines at its top level lands in the locals, and a function of the code
\* looks names up in safe_globals and its __builtins__ only.
safe_globals == {"json", "datetime", "asyncio", "re"}

safe_builtins ==
    {"print", "len", "str", "int", "float", "bool", "dict", "list", "tuple", "range",
     "enumerate", "zip", "min", "max", "sum", "any", "all", "ValueError", "TypeError",
     "KeyError", "Exception", "__import__"}

\* the function the stored code's execute calls for a stage
HandlerOf(stage) ==
    CASE stage = "user_name" -> "process_user_name"
      [] stage = "user_purpose" -> "process_user_purpose"
      [] stage = "trust_acceptance" -> "process_trust_acceptance"
      [] stage = "passion_text" -> "process_passion_text"
      [] OTHER -> "process_confirmation"

\* The stored USER_PROFILER_CODE as the compiler runs it.  Its text is that of
\* main.py's tool, and execute catches the NameError of a handler it cannot
\* reach.
USER_PROFILER_CODE(stage, input_value, session_data) ==
    IF stage \notin Range(valid_stages)
    THEN PlainText("Error: Invalid stage")
    ELSE IF HandlerOf(stage) \notin safe_globals \cup safe_builtins
    THEN PlainText("Error processing user profile: name is not defined")
    ELSE user_profiler(stage, input_value, session_data)

(***************************************************************************)
(* DatabaseManager (src/core/database.py) and health_check (src/main.py).  *)
(* In the specification of the manager the variable db is the manager      *)
(* itself, with the environment it reads; None is <<>>.                    *)
(***************************************************************************)
Environments ==
    [MONGODB_URI : {<<>>, <<"mongodb://host">>}, DATABASE_NAME : {<<>>, <<"mcp">>}]

NewManager(env) ==
    [_client |-> <<>>, _database |-> <<>>, pinging |-> FALSE,
     MONGODB_URI |-> env.MONGODB_URI, DATABASE_NAME |-> env.DATABASE_NAME]

\* connect(), up to `await self._client.admin.command('ping')` or to its end
connect(m) ==
    IF m._client # <<>>
    THEN [db |-> m, err |-> "none", awaits |-> FALSE]
    ELSE IF m.MONGODB_URI = <<>> \/ m.DATABASE_NAME = <<>>
    THEN [db |-> m, err |-> "ValueError", awaits |-> FALSE]
    ELSE [db |-> [m EXCEPT !._client = m.MONGODB_URI, !._database = m.DATABASE_NAME,
                           !.pinging = TRUE],
          err |-> "none", awaits |-> TRUE]

\* close()
close(m) ==
    IF m._client # <<>> THEN [m EXCEPT !._client = <<>>, !._database = <<>>] ELSE m

\* get_collection(collection_name): the collection, or RuntimeError
get_collection(m, collection_name) ==
    IF m._database = <<>>
    THEN [err |-> "RuntimeError", ret |-> <<>>]
    ELSE [err |-> "none", ret |-> <<[database |-> m._database[1], name |-> collection_name]>>]

\* health_check(): the JSON document it returns
health_check(m) ==
    LET database_connected == m._client # <<>>
    IN  [status |-> IF database_connected THEN "healthy" ELSE "degraded",
         database_connected |-> database_connected]

\* `connected` is history: a connect() has completed without error since the
\* last close(); `calls` is history too, the number of connect() calls made
Called(op, arg, err, ret, connected, calls) ==
    [op |-> op, arg |-> arg, err |-> err, ret |-> ret, connected |-> connected,
     calls |-> calls]

Connect ==
    /\ last.calls < MaxConnects
    /\ \E r \in {connect(db)} :
          /\ db' = r.db
          /\ last' = Called(IF r.awaits THEN "connect_ping" ELSE "connect", "", r.err, <<>>,
                            IF r.awaits \/ r.err # "none" THEN last.connected ELSE TRUE,
                            last.calls + 1)
    /\ UNCHANGED <<compiled_cache, builds, submitted, registered_tools, trees>>

\* the ping of a suspended connect() is answered, and connect() returns
PingReturns ==
    /\ db.pinging
    /\ db' = [db EXCEPT !.pinging = FALSE]
    /\ last' = Called("connect", "", "none", <<>>, TRUE, last.calls)
    /\ UNCHANGED <<compiled_cache, builds, submitted, registered_tools, trees>>

\* the ping fails, and connect() raises what the ping raised
PingFails ==
    /\ db.pinging
    /\ db' = [db EXCEPT !.pinging = FALSE]
    /\ last' = Called("connect", "", "ServerSelectionTimeoutError", <<>>, last.connected,
                      last.calls)
    /\ UNCHANGED <<compiled_cache, builds, submitted, registered_tools, trees>>

Close ==
    /\ db' = close(db)
    /\ last' = Called("close", "", "none", <<>>, FALSE, last.calls)
    /\ UNCHANGED <<compiled_cache, builds, submitted, registered_tools, trees>>

GetCollection(collection_name) ==
    /\ \E r \in {get_collection(db, collection_name)} :
          last' = Called("get_collection", collection_name, r.err, r.ret, last.connected,
                         last.calls)
    /\ UNCHANGED <<compiled_cache, builds, submitted, db, registered_tools, trees>>

HealthCheck ==
    /\ last' = Called("health_check", "", "none", <<health_check(db)>>, last.connected,
                      last.calls)
    /\ UNCHANGED <<compiled_cache, builds, submitted, db, registered_tools, trees>>

(***************************************************************************)
(* Specifications                                                          *)
(***************************************************************************)
Start ==
    /\ compiled_cache = EmptyDict
    /\ builds = 0
    /\ submitted = EmptyDict
    /\ registered_tools = {}
    /\ last = NoCall

\* The server: the registry loads the store, callers execute tools.
Init ==
    /\ Start
    /\ db \in Stores
    /\ trees = [k \in {1} |-> IdleTree]

Next ==
    \/ \E ten \in TenantIds \cup {NoTenant} : LoadAndRegisterTools(ten)
    \/ ClearRegistry
    \/ \E t \in ToolIds, ten \in TenantIds \cup {NoTenant} : ExecuteTool(1, t, ten)
    \/ Step(1)
    \/ Resume(1)
    \/ \E i \in DOMAIN trees[1].frames : Timeout(1, i)
    \/ Tick

Spec == Init /\ [][Next]_vars

\* The compiler on its own: callers compile documents, clear the cache and
\* execute tools.
InitCompile ==
    /\ Start
    /\ db = SeedStore
    /\ trees = [k \in {1} |-> IdleTree]

NextCompile ==
    \/ \E d \in DirectDocs : CompileTool(d)
    \/ ClearCache
    \/ \E t \in {"A", "C"} : ExecuteTool(1, t, NoTenant)

SpecCompile == InitCompile /\ [][NextCompile]_vars

\* The validator on its own, over every source text of up to MaxLines lines.
ValidateLines ==
    { <<"import", "os">>, <<"import", "sys">>, <<"import", "json">>, <<"import", "socket">>,
      <<"from_import", "os", "path">>, <<"from_import", "shutil", "re">>,
      <<"from_import", "socket", "*">>, <<"import_list", "json", "socket">>,
      <<"expr", "__import__">>, <<"expr", "exec(">>, <<"expr", "eval(">>,
      <<"expr", "open(">>, <<"expr", "file(">>, <<"expr", "subprocess">>,
      <<"expr", "retrieval(">>, <<"expr", "myopen(">>,
      <<"def_execute", "">>, <<"def_other", "">>, <<"text", "def execute(">> }

ValidateSources == UNION {[1..n -> ValidateLines] : n \in 1..MaxLines}

\* _validate_code_safety(code, tool_id) applied to the source text at hand
ValidateCall ==
    /\ last.op = "source"
    /\ last' = [last EXCEPT !.op = "validate",
                            !.err = ValidateCodeSafety(last.code, last.tool),
                            !.validated = TRUE]
    /\ UNCHANGED <<compiled_cache, builds, submitted, db, registered_tools, trees>>

InitValidate ==
    /\ compiled_cache = EmptyDict
    /\ builds = 0
    /\ submitted = EmptyDict
    /\ registered_tools = {}
    /\ db = <<>>
    /\ trees = [k \in {1} |-> IdleTree]
    /\ \E code \in ValidateSources :
          last = [NoCall EXCEPT !.op = "source", !.tool = "T", !.code = code]

NextValidate == ValidateCall

SpecValidate == InitValidate /\ [][NextValidate]_vars

\* The loader on its own, over stores whose documents may be inactive and may
\* lack the tenants field.
StoredDocs(t) ==
    {[tool_id |-> t, name |-> t, code |-> codeSyncRet, input_schema |-> "schema",
      tenants |-> ten, active |-> act] : ten \in {{"t1"}, {"t2"}, Both}, act \in BOOLEAN}
    \cup {[tool_id |-> t, name |-> t, code |-> codeSyncRet, input_schema |-> "schema",
           active |-> act] : act \in BOOLEAN}

LoadStores == {<<a, c>> : a \in StoredDocs("A"), c \in StoredDocs("C")}

\* the record of a read: the call made and what it returned
Asked(op, tool_id, tenant_id, ret) ==
    [op |-> op, tool |-> tool_id, tenant_id |-> tenant_id, ret |-> ret]

LoadTool(tool_id, tenant_id) ==
    /\ last' = Asked("load_tool", tool_id, tenant_id, load_tool(db, tool_id, tenant_id))
    /\ UNCHANGED <<compiled_cache, builds, submitted, db, registered_tools, trees>>

LoadTenantTools(tenant_id) ==
    /\ last' = Asked("load_tenant_tools", "", tenant_id, load_tenant_tools(db, tenant_id))
    /\ UNCHANGED <<compiled_cache, builds, submitted, db, registered_tools, trees>>

LoadAllTools ==
    /\ last' = Asked("load_all_tools", "", NoTenant, load_all_tools(db))
    /\ UNCHANGED <<compiled_cache, builds, submitted, db, registered_tools, trees>>

GetToolSchema(tool_id, tenant_id) ==
    /\ last' = Asked("get_tool_schema", tool_id, tenant_id,
                     get_tool_schema(db, tool_id, tenant_id))
    /\ UNCHANGED <<compiled_cache, builds, submitted, db, registered_tools, trees>>

InitLoad ==
    /\ Start
    /\ db \in LoadStores
    /\ trees = [k \in {1} |-> IdleTree]

NextLoad ==
    \/ \E t \in {"A", "C"}, ten \in TenantIds \cup {NoTenant} : LoadTool(t, ten)
    \/ \E ten \in TenantIds : LoadTenantTools(ten)
    \/ LoadAllTools
    \/ \E t \in {"A", "C"}, ten \in TenantIds \cup {NoTenant} : GetToolSchema(t, ten)

SpecLoad == InitLoad /\ [][NextLoad]_vars

\* The profiler and a caller.  The caller sends any stage and input: first
\* with session_data that is new or is not JSON, and from then on with the
\* session_data of the reply it just got, while replies bring one.
\* `inorder` and `calls` are history: whether the caller began at user_name with new session_data and then sent each time the stage the
\* reply before asked for, and the calls of such a run so far (0 otherwise).
\* `supplied` is history too: for each of the first three stages that has
\* answered with session_data on this session, the input the caller gave it last.
Carries(reply) == reply.kind = "json" /\ "session_data" \in DOMAIN reply.value

AsksFor(reply, stage) ==
    reply.kind = "json" /\ "next_stage" \in DOMAIN reply.value
        /\ reply.value.next_stage = stage

UserProfiler(stage, input_value, session) ==
    /\ IF session = "carried"
       THEN /\ last.op = "user_profiler"
            /\ Carries(last.reply)
            /\ last.calls < MaxCalls
       ELSE last.op # "user_profiler"
    /\ \E given \in {CASE session = "carried" -> JsonDumps(last.reply.value.session_data)
                        [] session = "new" -> JsonDumps(EmptyDict)
                        [] OTHER -> PlainText("not json")},
          inorder \in {CASE session = "carried" -> last.inorder /\ AsksFor(last.reply, stage)
                          [] session = "new" -> stage = "user_name"
                          [] OTHER -> FALSE} :
          last' = [op |-> "user_profiler", stage |-> stage, input_value |-> input_value,
                   session_data |-> given,
                   reply |-> user_profiler(stage, input_value, given),
                   inorder |-> inorder,
                   supplied |->
                       LET sofar == IF session = "carried" THEN last.supplied ELSE EmptyDict
                       IN  IF stage \in Range(SubSeq(valid_stages, 1, 3))
                                 /\ Carries(user_profiler(stage, input_value, given))
                           THEN DictPut(sofar, stage, input_value) ELSE sofar,
                   calls |-> CASE ~inorder -> 0
                               [] session = "carried" -> last.calls + 1
                               [] OTHER -> 1]
    /\ UNCHANGED <<compiled_cache, builds, submitted, db, registered_tools, trees>>

InitProfiler ==
    /\ Start
    /\ db = <<>>
    /\ trees = [k \in {1} |-> IdleTree]

NextProfiler ==
    \E stage \in Range(valid_stages) \cup {"summary"}, input_value \in Inputs,
       session \in {"new", "carried", "other"} :
        UserProfiler(stage, input_value, session)

SpecProfiler == InitProfiler /\ [][NextProfiler]_vars

\* The three profilers side by side: a caller gives the same arguments to the
\* tool of main.py, to the builtin and to the stored code, and carries the
\* session main.py's tool returned to the stage it asked for.
CallProfilers(stage, input_value, session) ==
    /\ IF session = "carried"
       THEN /\ last.op = "profilers"
            /\ AsksFor(last.main, stage)
            /\ last.calls < MaxCalls
       ELSE last.op # "profilers"
    /\ \E given \in {CASE session = "carried" -> JsonDumps(last.main.value.session_data)
                        [] session = "new" -> JsonDumps(EmptyDict)
                        [] OTHER -> PlainText("not json")} :
          last' = [op |-> "profilers", stage |-> stage, input_value |-> input_value,
                   session_data |-> given,
                   main |-> user_profiler(stage, input_value, given),
                   builtin |-> UserProfilerExecute(stage, input_value, given),
                   stored |-> USER_PROFILER_CODE(stage, input_value, given),
                   calls |-> IF session = "carried" THEN last.calls + 1 ELSE 1]
    /\ UNCHANGED <<compiled_cache, builds, submitted, db, registered_tools, trees>>

InitProfilers ==
    /\ Start
    /\ db = <<>>
    /\ trees = [k \in {1} |-> IdleTree]

NextProfilers ==
    \E stage \in Range(valid_stages) \cup {"summary"}, input_value \in Inputs,
       session \in {"new", "carried", "other"} :
        CallProfilers(stage, input_value, session)

SpecProfilers == InitProfilers /\ [][NextProfilers]_vars

\* The cache under change while tools run: documents are compiled and compiled
\* again from other source, the cache is read and cleared, and time passes,
\* all while an execution is in progress.
RecompileDocs ==
    {ToolDoc("A", codeCallC, {"t1"})}
    \cup {ToolDoc("C", c, Both) : c \in {codeAsyncRet, codeSocket}}

InitRecompile ==
    /\ Start
    /\ db = SeedStore
    /\ trees = [k \in {1} |-> IdleTree]

NextRecompile ==
    \/ \E d \in RecompileDocs : CompileTool(d)
    \/ LoadAndRegisterTools(NoTenant)
    \/ \E t \in {"A", "C"} : GetCompiledToolCall(t)
    \/ ClearCache
    \/ ClearRegistry
    \/ \E t \in {"A", "C"} : ExecuteTool(1, t, NoTenant)
    \/ Step(1)
    \/ Resume(1)
    \/ \E i \in DOMAIN trees[1].frames : Timeout(1, i)
    \/ Tick

SpecRecompile == InitRecompile /\ [][NextRecompile]_vars

\* The database manager: the server's startup connects, tools ask for
\* collections and for the health of the server, and the connection is closed.
InitDatabase ==
    /\ compiled_cache = EmptyDict
    /\ builds = 0
    /\ submitted = EmptyDict
    /\ registered_tools = {}
    /\ trees = [k \in {1} |-> IdleTree]
    /\ db \in {NewManager(env) : env \in Environments}
    /\ last = Called("none", "", "none", <<>>, FALSE, 0)

NextDatabase ==
    \/ Connect
    \/ PingReturns
    \/ PingFails
    \/ Close
    \/ \E c \in {"tools", "assistants"} : GetCollection(c)
    \/ HealthCheck

SpecDatabase == InitDatabase /\ [][NextDatabase]_vars

\* Tools that await several calls together, over stores in which the gathered
\* tools return at once, call each other, or call back into the gatherer.
GatherStores ==
    { <<ToolDoc("A", codeGatherBC, {"t1"}), ToolDoc("B", codeAsyncRet, Both),
        ToolDoc("C", codeAsyncRet, Both)>>,
      <<ToolDoc("A", codeGatherBB, {"t1"}), ToolDoc("B", codeAsyncRet, Both),
        ToolDoc("C", codeSyncRet, Both)>>,
      <<ToolDoc("A", codeGatherBC, {"t1"}), ToolDoc("B", codeCallC, Both),
        ToolDoc("C", codeAsyncRet, Both)>>,
      <<ToolDoc("A", codeGatherBC, {"t1"}), ToolDoc("B", codeAsyncRet, Both),
        ToolDoc("C", codeCallB, Both)>>,
      <<ToolDoc("A", codeGatherBC, {"t1"}), ToolDoc("B", codeCallA, Both),
        ToolDoc("C", codeRaise, Both)>> }

InitGather ==
    /\ Start
    /\ db \in GatherStores
    /\ trees = [k \in {1} |-> IdleGather]

NextGather ==
    \/ LoadAndRegisterTools(NoTenant)
    \/ \E t \in {"A", "B"}, ten \in {"t1", NoTenant} : GatherExecuteTool(1, t, ten)
    \/ GatherBegin(1)
    \/ \E j \in 1..MaxInvocations : GatherStep(1, j)
    \/ \E j \in 1..MaxInvocations : GatherResume(1, j)
    \/ \E j \in 1..MaxInvocations : GatherJoin(1, j)

SpecGather == InitGather /\ [][NextGather]_vars

\* The registry over a store that changes: an administrator's script updates
\* the schema, the name or the code of a stored tool, the registry loads,
\* reloads and clears, and clients invoke registered tools.
RegistryStore ==
    <<ToolDoc("A", codeSyncRet, {"t1"}), ToolDoc("B", codeSyncBusy, Both),
      ToolDoc("C", codeSyncRet, Both)>>

Updates ==
    {<<"B", "input_schema", "schema2">>, <<"B", "name", "B2">>, <<"B", "code", codeSocket>>,
     <<"B", "code", codeSyncBusy>>}

InitRegistry ==
    /\ Start
    /\ db = RegistryStore
    /\ trees = [k \in {1} |-> IdleTree]

NextRegistry ==
    \/ LoadAndRegisterTools(NoTenant)
    \/ \E t \in {"B", "C"} : ReloadTool(t, NoTenant)
    \/ ClearRegistry
    \/ \E u \in Updates : UpdateOne(u[1], u[2], u[3])
    \/ \E t \in {"A", "B"} : ToolWrapper(t)

SpecRegistry == InitRegistry /\ [][NextRegistry]_vars

\* Two callers: top-level execute_tool calls that run concurrently on the
\* event loop, over a store whose tools call one another without a cycle.
ChainStore ==
    <<ToolDoc("A", codeCallB, {"t1"}), ToolDoc("B", codeCallC, Both),
      ToolDoc("C", codeAsyncRet, Both)>>

InitTwo ==
    /\ Start
    /\ db = ChainStore
    /\ trees = [k \in {1, 2} |-> IdleTree]

NextTwo ==
    \/ LoadAndRegisterTools(NoTenant)
    \/ \E k \in {1, 2}, t \in {"A", "B"} : ExecuteTool(k, t, NoTenant)
    \/ \E k \in {1, 2} : Step(k)
    \/ \E k \in {1, 2} : Resume(k)
    \/ \E k \in {1, 2} : \E i \in DOMAIN trees[k].frames : Timeout(k, i)
    \/ Tick

SpecTwo == InitTwo /\ [][NextTwo]_vars

(***************************************************************************)
(* Properties of the execution engine                                      *)
(***************************************************************************)
\* the tool ids of the execute_tool invocations in progress, outermost first
Chain(tr) == [i \in DOMAIN tr.frames |-> tr.frames[i].tool]

\* every outcome a tree holds: results handed to entry points, results of
\* finished invocations, and the result of the top-level call
Outcomes(tr) ==
    UNION {Range(tr.frames[i].got) \cup Range(tr.frames[i].done) : i \in DOMAIN tr.frames}
    \cup Range(tr.result)

\* C1: in a tree started by execute_tool(A) where A calls B and B calls A, the
\* call back into A is rejected before A's entry point is entered again, and
\* the circular-dependency error spells the chain from the top-level tool on.
C1_CycleRejectedBeforeReentry ==
    \A k \in DOMAIN trees :
        /\ \A i, j \in DOMAIN trees[k].frames :
              i # j => trees[k].frames[i].tool # trees[k].frames[j].tool
        /\ \A o \in Outcomes(trees[k]) :
              o.kind = "circular" => Head(o.val) = trees[k].call.tool_id

\* the innermost entry point of tree k makes its pending call_tool in this step
CallMade(k) ==
    /\ CanStep(trees[k])
    /\ NextLine(trees[k])[1] \in {"call", "try_call"}
    /\ trees'[k].status = "running"
    /\ LET n == Len(trees[k].frames)
       IN  \/ Len(trees'[k].frames) = n + 1
           \/ /\ Len(trees'[k].frames) = n
              /\ \/ trees'[k].frames[n].pc # trees[k].frames[n].pc
                 \/ /\ trees'[k].frames[n].done # <<>>
                    /\ trees'[k].frames[n].done[1].kind # "timeout"

\* a finished invocation of tree k hands an ordinary result to its caller in this step
ResultReturned(k) ==
    /\ trees[k].status = "running"
    /\ Len(trees[k].frames) >= 2
    /\ trees[k].frames[Len(trees[k].frames)].done # <<>>
    /\ trees[k].frames[Len(trees[k].frames)].done[1].kind = "ok"
    /\ Len(trees'[k].frames) = Len(trees[k].frames) - 1
    /\ trees'[k].frames[Len(trees'[k].frames)].done = <<>>

\* C2: a nested call_tool whose target is compiled and is not a tool already in
\* the chain is not rejected as circular: the target's entry point is run, and
\* what the entry point returns is what call_tool returns to the caller.
C2_NoRepeatChainSucceeds ==
    [][\A k \in DOMAIN trees :
        LET tr == trees[k]
            n == Len(tr.frames)
            target == NextLine(tr)[2]
        IN  /\ (CallMade(k) /\ target \notin Range(Chain(tr))
                    /\ target \in DOMAIN compiled_cache) =>
                 IF compiled_cache[target].func.coro
                 THEN /\ Len(trees'[k].frames) = n + 1
                      /\ trees'[k].frames[n + 1].art = compiled_cache[target]
                      /\ trees'[k].frames[n + 1].pc = 1
                 ELSE LET out == RunPlain(compiled_cache[target].func.body, 0)
                      IN  /\ Len(trees'[k].frames) = n
                          /\ out.kind = "ok" =>
                                trees'[k].frames[n].got = Append(tr.frames[n].got, out)
            /\ ResultReturned(k) =>
                 trees'[k].frames[n - 1].got =
                     Append(tr.frames[n - 1].got, tr.frames[n].done[1])
      ]_vars

\* a chain A -> B -> C has run to its end and A's result is the top-level result
C2_ChainCompleted ==
    \E k \in DOMAIN trees :
        /\ trees[k].status = "idle"
        /\ trees[k].result = <<Outcome("ok", <<"rA">>, 0)>>
        /\ [i \in DOMAIN trees[k].entered |-> trees[k].entered[i].art.tool_id]
              = <<"A", "B", "C">>

\* the call_stack the entry point of frame i runs with, and so the one each of
\* its call_tool calls finds: empty for the top-level tool, else the stack
\* its own call_tool found plus its own id
OwnStack(tr, i) == IF i = 1 THEN <<>> ELSE Append(tr.frames[i].saved, tr.frames[i].tool)

\* C3: once a call_tool call has ended, however it ended, the caller is the
\* innermost entry point again and call_stack is what it was before the call;
\* so a call that follows a failed one is rejected as circular only if its
\* target is in the chain of callers.
C3_StackRestored ==
    \A k \in DOMAIN trees :
        LET tr == trees[k]
            n == Len(tr.frames)
        IN  /\ tr.call_stack = IF n = 0 THEN <<>> ELSE OwnStack(tr, n)
            /\ \A i \in 2..n : tr.frames[i].saved = OwnStack(tr, i - 1)
            /\ \A i \in 1..n : \A j \in DOMAIN tr.frames[i].got :
                  tr.frames[i].got[j].kind = "circular" =>
                      tr.frames[i].got[j].val[Len(tr.frames[i].got[j].val)]
                          \in {tr.frames[m].tool : m \in 1..i}

\* a caller whose first call failed has made a second and a third call, and the
\* third returned its callee's result
C3_SiblingAfterFailure ==
    \E k \in DOMAIN trees :
        /\ Len(trees[k].frames) = 1
        /\ Len(trees[k].frames[1].got) = 3
        /\ trees[k].frames[1].got[1].kind = "fault"
        /\ trees[k].frames[1].got[3].kind = "ok"
        /\ trees[k].call_stack = <<>>

\* C4: an entry point that execute_tool runs was built from the source text
\* most recently submitted to compile_tool for its tool id.
C4_RunsLatestSubmitted ==
    \A k \in DOMAIN trees : \A i \in DOMAIN trees[k].entered :
        trees[k].entered[i].art.code_hash = Sha256(trees[k].entered[i].latest)

\* C23: when call_tool(T) finds T in call_stack, the caller gets the
\* circular-dependency error, call_stack is left as it was, execute_tool is not
\* called for T and no entry point is run.
C23_RejectionLeavesStack ==
    [][\A k \in DOMAIN trees :
        LET tr == trees[k]
            n == Len(tr.frames)
            target == NextLine(tr)[2]
            rejected == Circular(tr.call_stack, target)
        IN  (CallMade(k) /\ InStack(tr.call_stack, target)) =>
                /\ trees'[k].call_stack = tr.call_stack
                /\ trees'[k].entered = tr.entered
                /\ Len(trees'[k].frames) = n
                /\ \/ trees'[k].frames[n].got = Append(tr.frames[n].got, rejected)
                   \/ trees'[k].frames[n].done =
                          <<[rejected EXCEPT !.took = tr.frames[n].elapsed]>>
      ]_vars

\* a call of B made with B and A in the stack has just been rejected: the
\* stack holds B and A still, and no fourth entry point has been run
C23_CallRejected ==
    \E k \in DOMAIN trees :
        /\ Len(trees[k].frames) = 3
        /\ trees[k].call_stack = <<"B", "A">>
        /\ trees[k].frames[3].done # <<>>
        /\ trees[k].frames[3].done[1] = Outcome("circular", <<"B", "A", "B">>, 0)
        /\ Len(trees[k].entered) = 3

\* C30: when the wait_for of a top-level execute_tool expires while nested
\* call_tool calls are in progress, the nested calls are gone and call_stack is
\* empty as soon as the timeout error is raised, and it is empty when the error
\* has reached the top-level caller.
C30_TimeoutEmptiesStack ==
    /\ [][\A k \in DOMAIN trees :
            (/\ Len(trees[k].frames) >= 2
             /\ trees[k].frames[1].done = <<>>
             /\ Len(trees'[k].frames) >= 1
             /\ trees'[k].frames[1].done # <<>>
             /\ trees'[k].frames[1].done[1].kind = "timeout") =>
                /\ Len(trees'[k].frames) = 1
                /\ trees'[k].call_stack = <<>>]_vars
    /\ [](\A k \in DOMAIN trees :
            (trees[k].status = "idle" /\ trees[k].result # <<>>
                 /\ trees[k].result[1].kind = "timeout") =>
                trees[k].call_stack = <<>>)

\* A's top-level call has timed out at its first line, its call of B, while B
\* was awaiting C: B and C had been pushed, and the stack is empty
C30_NestedCallsCancelled ==
    \E k \in DOMAIN trees :
        /\ Len(trees[k].frames) = 1
        /\ trees[k].frames[1].done = <<Outcome("timeout", <<>>, TIMEOUT)>>
        /\ trees[k].frames[1].pc = 1
        /\ trees[k].frames[1].got = <<>>
        /\ [i \in DOMAIN trees[k].entered |-> trees[k].entered[i].art.tool_id]
              = <<"A", "B", "C">>
        /\ trees[k].call_stack = <<>>

(***************************************************************************)
(* Properties of compile_tool                                              *)
(***************************************************************************)
\* the most recent call was compile_tool, for a tool id cached with this digest
SameCodeCached ==
    /\ last.op = "compile"
    /\ last.tool \in DOMAIN last.before
    /\ last.before[last.tool].code_hash = Sha256(last.code)

\* the most recent call was compile_tool, for a tool id cached with another digest
OtherCodeCached ==
    /\ last.op = "compile"
    /\ last.tool \in DOMAIN last.before
    /\ last.before[last.tool].code_hash # Sha256(last.code)

\* C5: compile_tool for a tool id whose cached entry was built from identical
\* code returns that very entry, runs neither the validator nor the build, and
\* leaves the cache as it was.
C5_SameCodeIsCacheHit ==
    SameCodeCached =>
        /\ last.err = NoError
        /\ last.ret = <<last.before[last.tool]>>
        /\ ~last.validated
        /\ ~last.built
        /\ compiled_cache = last.before

\* the same document has been compiled a second time
C5_CompiledTwice ==
    /\ SameCodeCached
    /\ last.ret = <<compiled_cache[last.tool]>>
    /\ ~last.validated

\* C6: compile_tool for a tool id cached with a different digest validates the
\* new source again and, when validation passes, builds it again; when it
\* succeeds the entry is replaced by a new CompiledTool carrying the digest of
\* the new source.
C6_ChangedCodeIsRebuilt ==
    OtherCodeCached =>
        /\ last.validated
        /\ ValidateCodeSafety(last.code, last.tool) = NoError => last.built
        /\ last.err = NoError =>
              /\ last.built
              /\ compiled_cache[last.tool].code_hash = Sha256(last.code)
              /\ compiled_cache[last.tool].func = BuiltFunc(last.code)
              /\ compiled_cache[last.tool].compiled_at > last.before[last.tool].compiled_at
              /\ last.ret = <<compiled_cache[last.tool]>>
              /\ \A t \in DOMAIN last.before \ {last.tool} :
                    compiled_cache[t] = last.before[t]

\* a cached entry has been replaced by one built from changed source
C6_EntryReplaced ==
    /\ OtherCodeCached
    /\ last.err = NoError
    /\ compiled_cache[last.tool] # last.before[last.tool]

\* the exception _validate_code_safety or, after it, _compile_code raises
RaisedBy(code, tool_id) ==
    IF ValidateCodeSafety(code, tool_id) # NoError
    THEN ValidateCodeSafety(code, tool_id)
    ELSE CompileCode(code, tool_id)

\* C7: when compile_tool raises, the cache is exactly as the call found it, the
\* caller gets the exception the validator or the build raised, and
\* get_compiled_tool returns None for a tool id that had no entry; source with
\* `import socket` raises SecurityError naming socket.
C7_FailedCompileLeavesCache ==
    /\ (last.op = "compile" /\ last.err # NoError) =>
          /\ compiled_cache = last.before
          /\ last.ret = <<>>
          /\ last.err = RaisedBy(last.code, last.tool)
          /\ last.tool \notin DOMAIN last.before =>
                GetCompiledTool(compiled_cache, last.tool) = <<>>
    /\ (last.op = "compile" /\ last.code = codeSocket) =>
          last.err = [err |-> "SecurityError",
                      msg |-> <<"Disallowed import", last.tool, "socket">>]

\* compile_tool has raised SecurityError for a tool id that has no entry
C7_SocketRejected ==
    /\ last.op = "compile"
    /\ last.code = codeSocket
    /\ last.err.err = "SecurityError"
    /\ last.tool \notin DOMAIN last.before
    /\ GetCompiledTool(compiled_cache, last.tool) = <<>>

(***************************************************************************)
(* Properties of execute_tool                                              *)
(***************************************************************************)
\* C8: execute_tool fails for want of a compiled tool only when the store has
\* no active definition of the tool for the tenant; otherwise it compiles the
\* definition and runs it.
C8_CompilesOnMiss ==
    \A k \in DOMAIN trees : \A o \in Outcomes(trees[k]) :
        o.kind = "notcompiled" => load_tool(db, o.val[1], trees[k].tenant_id) = <<>>

\* the stored definition of a tool lists the tenant
InScope(tool_id, tenant_id) ==
    \E i \in DOMAIN db : db[i].tool_id = tool_id /\ MatchesTenant(db[i], tenant_id)

\* C9: an entry point is run on behalf of a tenant only if the tenant is within
\* the tool's tenant scope, whether the tool is executed directly or through
\* call_tool.
C9_TenantScopeEnforced ==
    \A k \in DOMAIN trees :
        trees[k].tenant_id \in TenantIds =>
            \A i \in DOMAIN trees[k].entered :
                InScope(trees[k].entered[i].art.tool_id, trees[k].tenant_id)

\* C10: no execute_tool call, of a coroutine or of a plain function, goes on
\* for more than 30 time units: one that has not completed by then fails with
\* a timeout error at that boundary.
C10_TimeoutAtBudget ==
    \A k \in DOMAIN trees :
        /\ \A o \in Outcomes(trees[k]) : o.took <= TIMEOUT
        /\ \A i \in DOMAIN trees[k].frames : trees[k].frames[i].elapsed <= TIMEOUT

\* C11: a fault raised by an entry point reaches the caller of execute_tool as
\* an execution error that carries the fault as its cause, never as the raw
\* exception.
C11_FaultsWrapped ==
    \A k \in DOMAIN trees : \A o \in Outcomes(trees[k]) :
        o.kind = "fault" =>
            /\ Surfaced(o).type = "ExecutionError"
            /\ Surfaced(o).cause = o.val

FailureKinds == {"circular", "timeout", "notcompiled", "fault"}

\* C12: failures of different kinds (cycle, timeout, tool not compiled, fault
\* of the entry point) reach the caller as exceptions of different classes.
C12_FailureKindsDistinct ==
    \A k \in DOMAIN trees : \A o1, o2 \in Outcomes(trees[k]) :
        (o1.kind \in FailureKinds /\ o2.kind \in FailureKinds /\ o1.kind # o2.kind) =>
            Surfaced(o1).type # Surfaced(o2).type

\* the tool ids whose entry points tree tr has run
EnteredTools(tr) == {tr.entered[i].art.tool_id : i \in DOMAIN tr.entered}

\* C13: each top-level execute_tool has a call_stack of its own: under any
\* interleaving of two trees the stack of a tree holds exactly what its own
\* invocations in progress pushed, and a call is rejected as circular only
\* for a tool the same tree has entered.
C13_StacksIndependent ==
    \A k \in DOMAIN trees :
        LET tr == trees[k]
            n == Len(tr.frames)
        IN  /\ tr.call_stack = IF n = 0 THEN <<>> ELSE OwnStack(tr, n)
            /\ \A o \in Outcomes(tr) :
                  o.kind = "circular" => Range(o.val) \subseteq EnteredTools(tr)

\* two trees started for the same tool are in progress at different depths
C13_SameToolTwice ==
    /\ trees[1].call.tool_id = "A"
    /\ trees[2].call.tool_id = "A"
    /\ trees[1].call_stack = <<"B", "C">>
    /\ trees[2].call_stack = <<"B">>

\* the instance a successful compile_tool(doc) constructs as the stamp-th one
Produced(doc, stamp) ==
    [tool_id |-> doc.tool_id, name |-> doc.name, func |-> BuiltFunc(doc.code),
     input_schema |-> doc.input_schema, code_hash |-> Sha256(doc.code),
     compiled_at |-> stamp]

\* C14: however compile_tool calls for one tool id are ordered, the cache has
\* one entry for the tool id, the entry is wholly the CompiledTool one of the
\* calls produced, and after a call that built an instance it is that instance.
C14_OneWholeEntryPerTool ==
    /\ \A t \in DOMAIN compiled_cache :
          \E doc \in DirectDocs :
              /\ doc.tool_id = t
              /\ DefLines(doc.code) # {}
              /\ compiled_cache[t] = Produced(doc, compiled_cache[t].compiled_at)
    /\ (last.op = "compile" /\ last.err = NoError) =>
          /\ compiled_cache[last.tool] = last.ret[1]
          /\ last.built => compiled_cache[last.tool].compiled_at = builds

\* three compile_tool calls for one tool id have each built an instance
C14_ThirdWriter ==
    /\ last.op = "compile"
    /\ last.tool \in DOMAIN last.before
    /\ last.before[last.tool].compiled_at = 2
    /\ compiled_cache[last.tool].compiled_at = 3

(***************************************************************************)
(* Properties of _validate_code_safety                                     *)
(***************************************************************************)
\* the denylisted constructs, each under the name of the pattern written for it
Denylisted == Range(dangerous_patterns)

\* the source text has the construct as it is written in the denylist
HasConstruct(code, c) ==
    \E i \in DOMAIN code :
        \/ c = "import_os" /\ code[i] = <<"import", "os">>
        \/ c = "import_sys" /\ code[i] = <<"import", "sys">>
        \/ code[i] = <<"expr", c>>

\* C15: for a source text with a denylisted construct, whatever else it
\* contains, _validate_code_safety raises SecurityError naming a denylisted
\* pattern that the text matches.
C15_DenylistRejected ==
    (last.op = "validate" /\ \E c \in {"import_os", "import_sys", "__import__", "exec(",
                                        "eval(", "open(", "file(", "subprocess"} :
                                HasConstruct(last.code, c)) =>
        /\ last.err.err = "SecurityError"
        /\ last.err.msg[1] = "Dangerous code pattern detected"
        /\ \/ HasConstruct(last.code, last.err.msg[3])
           \/ last.err.msg[3] = "eval(" /\ HasConstruct(last.code, "retrieval(")

\* a text with file( after an allowed import has been rejected for file(
C15_FileCallRejected ==
    /\ last.op = "validate"
    /\ last.code = << <<"import", "json">>, <<"expr", "file(">> >>
    /\ last.err = [err |-> "SecurityError",
                   msg |-> <<"Dangerous code pattern detected", "T", "file(">>]

\* the modules a source text imports, by `import m`, `import m, n` or
\* `from m import x`
ImportedModules(code) ==
    UNION {CASE code[i][1] \in {"import", "from_import"} -> {code[i][2]}
             [] code[i][1] = "import_list" -> {code[i][2], code[i][3]}
             [] OTHER -> {} : i \in DOMAIN code}

\* the error message names a module: as the disallowed import, or in the pattern
ErrorNames(err, m) ==
    /\ err.err = "SecurityError"
    /\ \/ err.msg[1] = "Disallowed import" /\ err.msg[3] = m
       \/ err.msg[1] = "Dangerous code pattern detected"
              /\ err.msg[3] \in {"import_os", "import_sys", "subprocess"}

\* C16: for a source text that imports a module outside the allowlist, by
\* `import m` or by `from m import x`, _validate_code_safety raises
\* SecurityError, and the message names a module of the text that is outside
\* the allowlist.
C16_DisallowedImportRejected ==
    (last.op = "validate" /\ ImportedModules(last.code) \ allowed_imports # {}
         /\ \A c \in Denylisted \ {"import_os", "import_sys"} : ~CodeMatches(c, last.code)) =>
        \E m \in ImportedModules(last.code) \ allowed_imports : ErrorNames(last.err, m)

\* C17: a source text that passes the denylist and import checks but does not
\* define execute fails validation with the "must define" error and is not
\* handed to _compile_code.
C17_MissingEntryPointStopsAtValidation ==
    (last.op = "compile" /\ last.validated /\ DefLines(last.code) = {}
         /\ ValidateCodeSafety(last.code, last.tool).err # "SecurityError") =>
        /\ last.err = [err |-> "ValueError",
                       msg |-> <<"must define an execute function", last.tool>>]
        /\ ~last.built

\* the check a source text fails first, in the order denylist, imports, entry point
FailsDenylist(code) == \E c \in Denylisted : CodeMatches(c, code)

FailsImports(code) ==
    \E i \in DOMAIN ImportMatches(code) : ImportMatches(code)[i] \notin allowed_imports

Visible(doc, tenant_id) ==
    /\ doc.active
    /\ tenant_id # NoTenant => ("tenants" \in DOMAIN doc /\ tenant_id \in doc.tenants)

\* C18: no read of the loader returns an inactive definition, or, when a
\* tenant is given, a definition whose tenants list lacks the tenant; a schema
\* is returned only for such a definition.
C18_ReadsAreFiltered ==
    /\ last.op \in {"load_tool", "load_tenant_tools", "load_all_tools"} =>
          \A i \in DOMAIN last.ret :
              /\ last.ret[i] \in Range(db)
              /\ Visible(last.ret[i], last.tenant_id)
              /\ last.op = "load_tool" => last.ret[i].tool_id = last.tool
    /\ (last.op = "get_tool_schema" /\ last.ret # <<>>) =>
          \E d \in Range(db) :
              /\ d.tool_id = last.tool
              /\ Visible(d, last.tenant_id)
              /\ last.ret[1].name = d.name
              /\ last.ret[1].inputSchema = d.input_schema

\* a read for a tenant has left out an inactive definition that lists the tenant
C18_InactiveLeftOut ==
    /\ last.op = "load_tenant_tools"
    /\ Len(last.ret) = 1
    /\ \E d \in Range(db) : ~d.active /\ MatchesTenant(d, last.tenant_id)

\* C19: an active record without a tenants field is returned to every tenant
\* by load_tool, load_tenant_tools and get_tool_schema.
C19_NoTenantsMeansAll ==
    \A d \in Range(db) :
        (d.active /\ "tenants" \notin DOMAIN d /\ last.op # "none"
             /\ last.tenant_id \in TenantIds) =>
            /\ (last.op = "load_tool" /\ last.tool = d.tool_id) => last.ret = <<d>>
            /\ last.op = "load_tenant_tools" => d \in Range(last.ret)
            /\ (last.op = "get_tool_schema" /\ last.tool = d.tool_id) => last.ret # <<>>

(***************************************************************************)
(* Properties of the user profiler                                         *)
(***************************************************************************)
\* the input is one the stage's handler accepts
ValidInput(stage, input_value) ==
    CASE stage = "user_name" -> Strip(input_value) # ""
      [] stage = "user_purpose" -> Len(Strip(input_value)) >= 5
      [] stage = "trust_acceptance" -> TRUE
      [] stage = "passion_text" -> Len(Strip(input_value)) >= 10
      [] OTHER -> Strip(Lower(input_value)) = "ready"

\* C20: a stage handler given valid input answers with the next stage of the
\* fixed order, in next_stage and in session_data['stage']; confirmation given
\* 'ready' answers completed = true; a caller that starts at user_name and
\* carries each reply's session_data to the stage asked for has a completed
\* profile after exactly five calls.
C20_StagesAdvanceInOrder ==
    last.op = "user_profiler" =>
        /\ \A i \in 1..4 :
              (last.stage = valid_stages[i] /\ ValidInput(last.stage, last.input_value)) =>
                  /\ AsksFor(last.reply, valid_stages[i + 1])
                  /\ last.reply.value.session_data["stage"] = valid_stages[i + 1]
        /\ (last.stage = "confirmation" /\ ValidInput(last.stage, last.input_value)) =>
              /\ last.reply.kind = "json"
              /\ "completed" \in DOMAIN last.reply.value
              /\ last.reply.value.completed
        /\ last.inorder =>
              /\ last.calls <= 5
              /\ last.stage = valid_stages[last.calls]
              /\ (last.reply.kind = "json" /\ "completed" \in DOMAIN last.reply.value)
                    => last.calls = 5

\* a caller has gone through the five stages in order and has its profile
C20_ProfileCompleted ==
    /\ last.op = "user_profiler"
    /\ last.inorder
    /\ last.calls = 5
    /\ last.reply.kind = "json"
    /\ "completed" \in DOMAIN last.reply.value
    /\ last.reply.value.profile.userName = "Ann"

\* the session_data dict a call was given, as the profiler reads it
GivenDict(session_data) ==
    IF JsonLoads(session_data) = <<>> THEN EmptyDict ELSE JsonLoads(session_data)[1]

\* the session_data field a stage collects, and the value it holds for an input
Collected(stage, input_value) ==
    CASE stage = "user_name" -> <<"userName", input_value>>
      [] stage = "user_purpose" -> <<"userPurpose", input_value>>
      [] stage = "trust_acceptance" ->
             <<"trustAccepted",
               Strip(Lower(input_value)) \in {"yes", "y", "true", "accept", "ok", "agree"}>>
      [] stage = "passion_text" -> <<"passionText", input_value>>
      [] OTHER -> <<>>

\* C21: the session_data a stage returns has every field of the session_data
\* it was given, each with its value unless the stage writes that field, and
\* has the field the stage collects; the final profile's userName, purpose and
\* trustAccepted are the values supplied at the user_name, user_purpose and
\* trust_acceptance stages of the session.
C21_SessionCarriedForward ==
    last.op = "user_profiler" =>
        /\ Carries(last.reply) =>
              LET given == GivenDict(last.session_data)
                  back == last.reply.value.session_data
                  field == Collected(last.stage, last.input_value)
              IN  /\ DOMAIN given \subseteq DOMAIN back
                  /\ \A f \in DOMAIN given :
                        (field # <<>> => f \notin {field[1], "stage", "personality_preview"})
                            => back[f] = given[f]
                  /\ "next_stage" \in DOMAIN last.reply.value =>
                        back[field[1]] = field[2]
        /\ (last.reply.kind = "json" /\ "completed" \in DOMAIN last.reply.value) =>
              LET profile == last.reply.value.profile
              IN  /\ "user_name" \in DOMAIN last.supplied =>
                        profile.userName = last.supplied["user_name"]
                  /\ "user_purpose" \in DOMAIN last.supplied =>
                        profile.userResponses.user_purpose = last.supplied["user_purpose"]
                  /\ "trust_acceptance" \in DOMAIN last.supplied =>
                        profile.privacyPreferences.trustAccepted =
                            Collected("trust_acceptance", last.supplied["trust_acceptance"])[2]

\* a profile has been completed from a name, a purpose and an acceptance
C21_ProfileHoldsAnswers ==
    /\ last.op = "user_profiler"
    /\ last.reply.kind = "json"
    /\ "completed" \in DOMAIN last.reply.value
    /\ DOMAIN last.supplied = {"user_name", "user_purpose", "trust_acceptance"}
    /\ last.supplied["user_name"] = "Ann"
    /\ last.supplied["user_purpose"] = "learn AI"
    /\ last.supplied["trust_acceptance"] = "YES"
    /\ last.reply.value.profile.privacyPreferences.trustAccepted

(***************************************************************************)
(* Properties of the cache over time                                       *)
(***************************************************************************)
\* C26: an entry leaves the cache only when clear_cache or clear_registry
\* empties it, and an entry is replaced only by a compile_tool of its tool id
\* that succeeds on source with another digest; get_compiled_tool, a cache-hit
\* compile, a failed compile, the steps of an execution and the passing of
\* time leave the cache as it is.
C26_CacheChangesOnlyByCompileOrClear ==
    [][/\ \A t \in DOMAIN compiled_cache :
             /\ t \notin DOMAIN compiled_cache' =>
                   /\ last'.op \in {"clear", "clear_registry"}
                   /\ last'.before = compiled_cache
                   /\ compiled_cache' = EmptyDict
             /\ (t \in DOMAIN compiled_cache' /\ compiled_cache'[t] # compiled_cache[t]) =>
                   /\ last'.op \in {"compile", "load"}
                   /\ last'.before = compiled_cache
                   /\ last'.op = "compile" => (last'.tool = t /\ last'.err = NoError)
                   /\ compiled_cache'[t].code_hash = Sha256(submitted'[t])
                   /\ compiled_cache'[t].code_hash # compiled_cache[t].code_hash
       /\ trees' # trees => compiled_cache' = compiled_cache
       /\ last'.op = "get" => compiled_cache' = compiled_cache
       /\ (last'.op = "compile" /\ (SameCodeCached' \/ last'.err # NoError)) =>
             compiled_cache' = compiled_cache
      ]_vars

\* an entry built first is still cached after the full timeout has passed in
\* an execution and a compile of its tool id from refused source has failed
C26_EntryOutlivesTimeAndFailure ==
    /\ last.op = "compile"
    /\ last.err.err = "SecurityError"
    /\ last.tool \in DOMAIN compiled_cache
    /\ compiled_cache[last.tool].compiled_at = 1
    /\ \E i \in DOMAIN trees[1].frames : trees[1].frames[i].elapsed = TIMEOUT

\* every reference to a CompiledTool the state holds, as the fields seen
\* through it: the cache's, those of the executions in progress, those handed
\* out by the last call, and the cache as that call found it.  An instance is
\* known by its place in the order of construction, compiled_at.
References ==
    Range(compiled_cache) \cup Range(last.before)
    \cup (IF last.op \in {"compile", "get"} THEN Range(last.ret) ELSE {})
    \cup UNION {{trees[k].frames[i].art : i \in DOMAIN trees[k].frames} : k \in DOMAIN trees}
    \cup UNION {{trees[k].entered[i].art : i \in DOMAIN trees[k].entered} : k \in DOMAIN trees}

\* the value the entry point of a frame returns from where it stands
ReturnsHere(f) ==
    IF f.pc <= Len(f.art.func.body) /\ f.art.func.body[f.pc][1] = "return"
    THEN <<f.art.func.body[f.pc][2]>> ELSE <<"None">>

\* C27: a CompiledTool never changes once constructed: all references to one
\* instance show the same fields, a compile_tool on changed source hands out
\* an instance that did not exist before, and an execution keeps the instance
\* it resolved, whatever is compiled or cleared meanwhile, and returns what
\* that instance's entry point returns.
C27_InstancesNeverMutated ==
    /\ [](/\ \A x, y \in References : x.compiled_at = y.compiled_at => x = y
          /\ (last.op = "compile" /\ last.built /\ last.err = NoError) =>
                \A x \in Range(last.before) : x.compiled_at # last.ret[1].compiled_at
          /\ \A k \in DOMAIN trees : \A i \in DOMAIN trees[k].frames :
                LET f == trees[k].frames[i]
                IN  (f.done # <<>> /\ f.done[1].kind = "ok") => f.done[1].val = ReturnsHere(f))
    /\ [][\A k \in DOMAIN trees :
            \A i \in DOMAIN trees[k].frames \cap DOMAIN trees'[k].frames :
                trees'[k].frames[i].art = trees[k].frames[i].art]_vars

\* A's entry point has returned the result of its first source, rB2, after
\* calling C, while the cache holds a later instance for A or none
C27_FinishedOnReplacedInstance ==
    /\ Len(trees[1].frames) = 1
    /\ trees[1].frames[1].tool = "A"
    /\ trees[1].frames[1].done = <<Outcome("ok", <<"rB2">>, 0)>>
    /\ Len(trees[1].frames[1].got) = 1
    /\ GetCompiledTool(compiled_cache, "A") # <<trees[1].frames[1].art>>

(***************************************************************************)
(* Properties of DatabaseManager                                           *)
(***************************************************************************)
\* C28: get_collection returns a collection only if a connect() has completed
\* without error since the last close(), and raises RuntimeError otherwise;
\* health_check reports database_connected = true only then.
C28_CollectionOnlyWhenConnected ==
    /\ last.op = "get_collection" =>
          IF last.connected
          THEN last.err = "none" /\ last.ret # <<>>
          ELSE last.err = "RuntimeError" /\ last.ret = <<>>
    /\ last.op = "health_check" =>
          (last.ret[1].database_connected => last.connected)

(***************************************************************************)
(* Properties of calls awaited together.                                    *)
(***************************************************************************)
NoRepeat(s) == \A i, j \in DOMAIN s : s[i] = s[j] => i = j

\* a call_tool that raised for a circular dependency
Rejected(inv) == inv.state = "done" /\ ~inv.pushed /\ inv.via # "top"

\* C22: no tool id occurs twice in the call_stack of any ToolContext, whether
\* calls are awaited one by one or together; a call_tool that rejects found
\* its tool id in the call_stack, pushed nothing and ran nothing of the
\* callee, and a call_tool that pushed did not find its tool id there.
C22_NoToolIdRepeats ==
    \A k \in DOMAIN trees :
        /\ \A c \in DOMAIN trees[k].contexts : NoRepeat(trees[k].contexts[c].call_stack)
        /\ \A j \in DOMAIN trees[k].invs :
              LET inv == trees[k].invs[j]
              IN  /\ Rejected(inv) =>
                        /\ inv.tool \in Range(inv.found)
                        /\ inv.outcome = <<Circular(inv.found, inv.tool)>>
                        /\ inv.art = <<>>
                        /\ inv.ctx = 0
                        /\ inv.popped = <<>>
                  /\ inv.pushed => inv.tool \notin Range(inv.found)

\* a call of B is rejected while the gathered calls of B and of C are both on
\* the call_stack
C22_RejectedWithTwoOnStack ==
    \E j \in DOMAIN trees[1].invs :
        /\ Rejected(trees[1].invs[j])
        /\ trees[1].invs[j].tool = "B"
        /\ trees[1].invs[j].found = <<"B", "C">>
        /\ trees[1].contexts[1].call_stack = <<"B", "C">>

\* the tools of the invocations on the path from the top-level call to
\* invocation j, both included
RECURSIVE PathTools(_, _)
PathTools(G, j) ==
    IF j = 0 THEN {} ELSE {G.invs[j].tool} \cup PathTools(G, G.invs[j].parent)

\* C29: a call_tool is rejected as circular only if its tool is the tool of
\* the calling invocation or of one of its ancestors up to the top-level
\* call, so never on account of a sibling the same parent awaits together
\* with it; and the id a call's exit pops is its own.
C29_RejectedOnlyForAncestors ==
    \A k \in DOMAIN trees :
        \A j \in DOMAIN trees[k].invs :
            LET inv == trees[k].invs[j]
            IN  /\ Rejected(inv) => inv.tool \in PathTools(trees[k], inv.parent)
                /\ inv.popped # <<>> => inv.popped = <<inv.tool>>

\* the calls whose execute_tool went on past the test of compiled_cache
Executed(G) == {j \in DOMAIN G.invs : G.invs[j].art # <<>>}

StageAfter(stage) ==
    CASE stage = "user_name" -> "user_purpose"
      [] stage = "user_purpose" -> "trust_acceptance"
      [] stage = "trust_acceptance" -> "passion_text"
      [] OTHER -> "confirmation"

\* C35: the reply to a call is that of the handler of its `stage` argument,
\* whatever stage the session_data it was given says: a reply that names a
\* next stage names the one after the argument, a confirmation call whose
\* input is one of the ready words returns completed = true with a profile,
\* for every session_data given, the empty one and one from an earlier stage
\* included, and any other confirmation call returns the session unchanged.
C35_StageArgumentDecides ==
    last.op = "user_profiler" =>
        /\ (last.reply.kind = "json" /\ "next_stage" \in DOMAIN last.reply.value) =>
              /\ last.stage \in Range(SubSeq(valid_stages, 1, 4))
              /\ last.reply.value.next_stage = StageAfter(last.stage)
        /\ last.stage = "confirmation" =>
              /\ last.reply.kind = "json"
              /\ IF Strip(Lower(last.input_value)) \in {"ready", "confirm", "yes", "complete"}
                 THEN /\ "completed" \in DOMAIN last.reply.value
                      /\ last.reply.value.completed
                      /\ last.reply.value.profile
                            = _generate_final_profile(GivenDict(last.session_data))
                 ELSE /\ "completed" \notin DOMAIN last.reply.value
                      /\ last.reply.value.session_data = GivenDict(last.session_data)

\* a confirmation call with ' Ready ' on the session a user_name call returned
\* has completed a profile that has a name and neither purpose nor passion
C35_CompletedFromNameOnly ==
    /\ last.op = "user_profiler"
    /\ last.stage = "confirmation"
    /\ last.input_value = " Ready "
    /\ DictGet(GivenDict(last.session_data), "stage", "") = "user_purpose"
    /\ last.reply.kind = "json"
    /\ "completed" \in DOMAIN last.reply.value
    /\ last.reply.value.completed
    /\ last.reply.value.profile.userName = "Ann"
    /\ last.reply.value.profile.userResponses.user_purpose = ""
    /\ last.reply.value.profile.personalityProfile = EmptyDict

\* two replies are the same text, or the same JSON document but for the
\* registrationDate of a profile
SameReply(a, b) ==
    /\ a.kind = b.kind
    /\ IF a.kind = "json" /\ "profile" \in DOMAIN a.value /\ "profile" \in DOMAIN b.value
       THEN [a.value EXCEPT !.profile.registrationDate = ""]
               = [b.value EXCEPT !.profile.registrationDate = ""]
       ELSE a.value = b.value

\* C34: given the same stage, input_value and session_data, the builtin
\* UserProfiler.execute and the stored USER_PROFILER_CODE, run as the
\* compiler runs it, return what the tool of main.py returns, the
\* registrationDate aside.
C34_ProfilersAgree ==
    last.op = "profilers" =>
        /\ SameReply(last.builtin, last.main)
        /\ SameReply(last.stored, last.main)

\* the source texts submitted to the compiler
Sources == {d.code : d \in DirectDocs} \cup {SeedStore[i].code : i \in DOMAIN SeedStore}

\* C36: every key of compiled_cache holds a CompiledTool whose tool_id is the
\* key and for which there is a source text that passed _validate_code_safety
\* for the key, from which the entry point was built, and whose SHA-256 digest
\* is the entry's code_hash.
C36_EntriesMatchTheirSource ==
    \A k \in DOMAIN compiled_cache :
        /\ compiled_cache[k].tool_id = k
        /\ \E code \in Sources :
              /\ compiled_cache[k].code_hash = Sha256(code)
              /\ compiled_cache[k].func = BuiltFunc(code)
              /\ ValidateCodeSafety(code, k) = NoError
              /\ CompileCode(code, k) = NoError

\* C holds its second compilation, from other source than its first, and a
\* third source has just been refused for it
C36_RebuiltThenRefused ==
    /\ last.op = "compile"
    /\ last.tool = "C"
    /\ last.err # NoError
    /\ "C" \in DOMAIN compiled_cache
    /\ compiled_cache["C"].compiled_at = 2
    /\ compiled_cache["C"].code_hash = Sha256(codeSyncBusy)
    /\ compiled_cache["C"].func = BuiltFunc(codeSyncBusy)

(***************************************************************************)
(* Properties of the registry over a store that changes.                   *)
(***************************************************************************)
\* C31: when reload_tool has compiled the document it read without error, the
\* CompiledTool that compile_tool returned, which is the one cached for the
\* tool, has the name and the input_schema of that document.
C31_CompiledMatchesDocument ==
    (last.op = "reload" /\ last.doc # <<>> /\ last.err.err = "none") =>
        /\ last.ret # <<>>
        /\ compiled_cache[last.tool] = last.ret[1]
        /\ last.ret[1].name = last.doc[1].name
        /\ last.ret[1].input_schema = last.doc[1].input_schema

\* C32: whatever load_and_register_tools, reload_tool and clear_registry calls
\* have been made, and whatever the store held at each, every tool id that
\* is_tool_registered reports has an entry in the compilation cache, so
\* execute_tool finds it compiled, and no call of a registered tool's wrapper
\* has ended with 'Tool ... not compiled'.
C32_RegisteredToolsAreCompiled ==
    /\ \A t \in ToolIds :
          is_tool_registered(registered_tools, t) =>
              /\ t \in DOMAIN compiled_cache
              /\ compiled_cache[t].tool_id = t
              /\ StartExec(compiled_cache, t).state # "raised"
    /\ \A k \in DOMAIN trees :
          trees[k].result # <<>> => trees[k].result[1].kind # "notcompiled"

\* B, registered again by reload_tool after a clear_registry and while its
\* stored code is refused, is the only registered tool and its wrapper has run
C32_RegisteredAgainAfterClear ==
    /\ registered_tools = {"B"}
    /\ DOMAIN compiled_cache = {"B"}
    /\ compiled_cache["B"].compiled_at = 2
    /\ last.op = "reload"
    /\ last.err.err # "none"
    /\ trees[1].call.tool_id = "B"
    /\ trees[1].result # <<>>
    /\ trees[1].result[1].kind = "ok"
    /\ trees[1].entered[1].art.compiled_at = 2

\* the documents of a loaded list that compile_tool refuses, given the cache
\* the call finds: those not cached under their hash whose code is refused
Refused(tools, cache) ==
    {i \in DOMAIN tools :
        /\ ~CacheHit(cache, tools[i].tool_id, Sha256(tools[i].code))
        /\ RaisedBy(tools[i].code, tools[i].tool_id) # NoError}

====
